---- MODULE Spec2Model ----
(***************************************************************************)
(* Behavioral analytics engine of the finance coach: the transaction       *)
(* store (modules/transaction_manager.py), the analytics and anomaly       *)
(* engines (modules/analytics.py, modules/anomaly.py), the health score    *)
(* engine with its snapshot log (modules/health_score.py) and the rule     *)
(* based risk factors (modules/prediction.py).                             *)
(*                                                                         *)
(* Python floats are modelled by exact rationals <<numerator, denominator>>*)
(* in lowest terms with a positive denominator.  The only irrational       *)
(* quantity, a standard deviation, is kept as its square (the variance)    *)
(* wherever the code only compares it, and is rounded down to one tenth of *)
(* a currency unit where the code computes with its value.                 *)
(***************************************************************************)
EXTENDS Integers, Sequences, FiniteSets, TLC

(***************************************************************************)
(* Bounds of the model.                                                    *)
(***************************************************************************)
\* Largest transaction set an engine loads.
MaxTx == 5
\* Day number of datetime.now(); transaction dates are day numbers.
Today == 20
\* Largest rowid given to a row of the transactions table.
MaxRowId == 2
\* Largest number of rows in the metrics table.
MaxSnap == 2
\* The delivery ratios probed are the multiples of 1/RatioSteps in [0, 1].
RatioSteps == 40
\* The volatilities probed are the first multiples of VolatilityStep.
VolatilitySteps == 24
VolatilityStep == 10
\* Largest number of OverspendPredictor objects constructed.
MaxPredictors == 3
\* Mean amount and number of transactions of the probed frame.
CurveAvgAmount == 100
CurveTotal == 20

(***************************************************************************)
(* Input domains.                                                          *)
(***************************************************************************)
\* Two of the ten CATEGORIES of config.py: the delivery category and another.
Categories == {"Food Delivery", "Groceries"}
\* One date in the current week and one in the previous week.
Dates == {Today - 8, Today - 1}
\* Validated, non-negative amounts.
Amounts == {0, 100, 150, 1000}
\* The users, dates and amounts of the calls made on the shared store.
Users == {1, 2}
StoreDates == {Today - 1}
StoreAmounts == {100}

(***************************************************************************)
(* Float arithmetic as exact rational arithmetic.                          *)
(***************************************************************************)
Abs(x) == IF x < 0 THEN -x ELSE x

RECURSIVE GCD(_, _)
GCD(a, b) == IF b = 0 THEN a ELSE GCD(b, a % b)

\* The rational n/d in lowest terms, d # 0.
Rat(n, d) ==
    LET g == GCD(Abs(n), Abs(d))
        s == IF d < 0 THEN -1 ELSE 1
    IN  <<(s * n) \div g, (s * d) \div g>>

Num(n) == <<n, 1>>

RAdd(a, b) ==
    LET g == GCD(a[2], b[2])
        l == (a[2] \div g) * b[2]
    IN  Rat(a[1] * (l \div a[2]) + b[1] * (l \div b[2]), l)

RNeg(a) == <<-a[1], a[2]>>

RSub(a, b) == RAdd(a, RNeg(b))

RMul(a, b) ==
    LET g1 == GCD(Abs(a[1]), b[2])
        g2 == GCD(Abs(b[1]), a[2])
    IN  <<(a[1] \div g1) * (b[1] \div g2), (a[2] \div g2) * (b[2] \div g1)>>

\* a / b for b # 0.
RDiv(a, b) == RMul(a, Rat(b[2], b[1]))

RLe(a, b) == a[1] * b[2] <= b[1] * a[2]

RLt(a, b) == a[1] * b[2] < b[1] * a[2]

RMax(a, b) == IF RLe(a, b) THEN b ELSE a

RMin(a, b) == IF RLe(a, b) THEN a ELSE b

RECURSIVE Pow10(_)
Pow10(k) == IF k = 0 THEN 1 ELSE 10 * Pow10(k - 1)

\* Python's round(x, ndigits): to the nearest multiple of 10^-ndigits, a tie
\* going to the even neighbour.
Round(x, ndigits) ==
    LET p   == Pow10(ndigits)
        y   == RMul(x, Num(p))
        fl  == y[1] \div y[2]
        rem == y[1] - fl * y[2]
        r   == IF 2 * rem < y[2] THEN fl
               ELSE IF 2 * rem > y[2] THEN fl + 1
               ELSE IF fl % 2 = 0 THEN fl ELSE fl + 1
    IN  Rat(r, p)

\* Below this value a square root is taken to the hundredth.
SqrtFine == 200000

RECURSIVE ISqrtBetween(_, _, _)
ISqrtBetween(n, lo, hi) ==
    IF lo >= hi THEN lo
    ELSE LET mid == (lo + hi + 1) \div 2
         IN  IF mid * mid <= n THEN ISqrtBetween(n, mid, hi)
             ELSE ISqrtBetween(n, lo, mid - 1)

\* The largest integer whose square is at most n.
ISqrt(n) == ISqrtBetween(n, 0, IF n < 46340 THEN n ELSE 46340)

\* The square root of a rational v >= 0, rounded down to a hundredth for
\* v < SqrtFine and to a tenth from there on, where the finer scaling would
\* leave the integers; exact when v is the square of such a multiple.
Sqrt(v) ==
    LET whole == v[1] \div v[2]
        rest  == v[1] % v[2]
    IN  IF whole < SqrtFine
        THEN Rat(ISqrt(whole * 10000 + (rest * 10000) \div v[2]), 100)
        ELSE Rat(ISqrt(whole * 100 + (rest * 100) \div v[2]), 10)

(***************************************************************************)
(* Sums over a loaded DataFrame, a set of rows                             *)
(* [transaction_id, date, category, amount] with distinct transaction_id.  *)
(***************************************************************************)
RECURSIVE SumAmount(_)
SumAmount(rows) ==
    IF rows = {} THEN 0
    ELSE LET r == CHOOSE r \in rows : TRUE
         IN  r.amount + SumAmount(rows \ {r})

RECURSIVE RSum(_)
\* The sum of a sequence of rationals.
RSum(s) == IF s = <<>> THEN Num(0) ELSE RAdd(Head(s), RSum(Tail(s)))

RECURSIVE SetToSeq(_)
SetToSeq(S) ==
    IF S = {} THEN <<>>
    ELSE LET x == CHOOSE x \in S : TRUE
         IN  <<x>> \o SetToSeq(S \ {x})

\* df['amount'].mean() of a non-empty frame.
MeanAmount(rows) == Rat(SumAmount(rows), Cardinality(rows))

\* Sum of squared deviations of the amounts from their mean.
SqDevAmount(rows) ==
    LET m == MeanAmount(rows)
        d == SetToSeq(rows)
    IN  RSum([i \in 1..Len(d) |->
                 RMul(RSub(Num(d[i].amount), m), RSub(Num(d[i].amount), m))])

(***************************************************************************)
(* config.py                                                               *)
(***************************************************************************)
HEALTH_SCORE_WEIGHTS ==
    [delivery_ratio    |-> Rat(3, 10),
     volatility        |-> Rat(25, 100),
     anomaly_frequency |-> Rat(25, 100),
     overspending      |-> Rat(2, 10)]

RISK_THRESHOLDS ==
    [high_delivery_ratio |-> Rat(25, 100),
     high_volatility     |-> Rat(4, 10),
     anomaly_zscore      |-> Num(2),
     overspend_threshold |-> Rat(12, 10)]

(***************************************************************************)
(* modules/analytics.py: FinancialAnalytics over its transactions_df.      *)
(***************************************************************************)
get_delivery_metrics(df) ==
    IF df = {}
    THEN [delivery_total      |-> Num(0),
          delivery_count      |-> 0,
          delivery_percentage |-> Num(0),
          total_spending      |-> Num(0),
          avg_delivery_order  |-> Num(0)]
    ELSE LET total_spending == Num(SumAmount(df))
             delivery_df    == {r \in df : r.category = "Food Delivery"}
             delivery_total == IF delivery_df # {}
                               THEN Num(SumAmount(delivery_df)) ELSE Num(0)
         IN  [delivery_total      |-> delivery_total,
              delivery_count      |-> Cardinality(delivery_df),
              delivery_percentage |->
                  IF RLt(Num(0), total_spending)
                  THEN RMul(RDiv(delivery_total, total_spending), Num(100))
                  ELSE Num(0),
              total_spending      |-> total_spending,
              avg_delivery_order  |->
                  IF delivery_df # {} THEN MeanAmount(delivery_df) ELSE Num(0)]

\* df.groupby('date')['amount'].sum(): the per-day totals, as a sequence.
daily_spending(df) ==
    LET days == SetToSeq({r.date : r \in df})
    IN  [i \in 1..Len(days) |-> SumAmount({r \in df : r.date = days[i]})]

\* Series.std(): the sample variance (ddof = 1) of at least two values.
SampleVariance(xs) ==
    LET n == Len(xs)
        m == RDiv(RSum([i \in 1..n |-> Num(xs[i])]), Num(n))
    IN  RDiv(RSum([i \in 1..n |->
                      RMul(RSub(Num(xs[i]), m), RSub(Num(xs[i]), m))]),
             Num(n - 1))

calculate_volatility(df) ==
    IF df = {} \/ Cardinality(df) < 2 THEN Num(0)
    ELSE LET daily == daily_spending(df)
         IN  \* the std of a single day's total is NaN, reported as 0.0
             IF Len(daily) < 2 THEN Num(0)
             ELSE Sqrt(SampleVariance(daily))

\* get_weekly_comparison reporting a rise of 100% when the previous week's
\* total is 0.
get_weekly_comparison_full_rise(df) ==
    IF df = {}
    THEN [current_week      |-> Num(0),
          previous_week     |-> Num(0),
          change_percentage |-> Num(0),
          trend             |-> "neutral"]
    ELSE LET current_week_df  == {r \in df : r.date > Today - 7 /\ r.date <= Today}
             previous_week_df == {r \in df : r.date > Today - 14 /\ r.date <= Today - 7}
             current_total    == IF current_week_df # {}
                                 THEN Num(SumAmount(current_week_df)) ELSE Num(0)
             previous_total   == IF previous_week_df # {}
                                 THEN Num(SumAmount(previous_week_df)) ELSE Num(0)
             change_pct       ==
                 IF RLt(Num(0), previous_total)
                 THEN RMul(RDiv(RSub(current_total, previous_total), previous_total),
                           Num(100))
                 ELSE Num(100)
         IN  [current_week      |-> current_total,
              previous_week     |-> previous_total,
              change_percentage |-> change_pct,
              trend             |->
                  IF RLt(Num(10), change_pct) THEN "increasing"
                  ELSE IF RLt(change_pct, Num(-10)) THEN "decreasing"
                  ELSE "stable"]

\* today carries a time of day and the dates do not: a date is at or after
\* today - 7 days exactly when its day number is above Today - 7.
get_weekly_comparison(df) ==
    IF df = {}
    THEN [current_week      |-> Num(0),
          previous_week     |-> Num(0),
          change_percentage |-> Num(0),
          trend             |-> "neutral"]
    ELSE LET current_week_df  == {r \in df : r.date > Today - 7 /\ r.date <= Today}
             previous_week_df == {r \in df : r.date > Today - 14 /\ r.date <= Today - 7}
             current_total    == IF current_week_df # {}
                                 THEN Num(SumAmount(current_week_df)) ELSE Num(0)
             previous_total   == IF previous_week_df # {}
                                 THEN Num(SumAmount(previous_week_df)) ELSE Num(0)
             change_pct       ==
                 IF RLt(Num(0), previous_total)
                 THEN RMul(RDiv(RSub(current_total, previous_total), previous_total),
                           Num(100))
                 ELSE Num(0)
         IN  [current_week      |-> current_total,
              previous_week     |-> previous_total,
              change_percentage |-> change_pct,
              trend             |->
                  IF RLt(Num(10), change_pct) THEN "increasing"
                  ELSE IF RLt(change_pct, Num(-10)) THEN "decreasing"
                  ELSE "stable"]

calculate_delivery_ratio(df) ==
    LET metrics  == get_delivery_metrics(df)
        total    == metrics.total_spending
        delivery == metrics.delivery_total
    IN  IF total = Num(0) THEN Num(0) ELSE RDiv(delivery, total)

(***************************************************************************)
(* modules/anomaly.py: AnomalyDetector over its own transactions_df.       *)
(***************************************************************************)
\* np.std is the population standard deviation; the code compares
\* z = |amount - mean| / std with the threshold, which for std > 0 is the
\* comparison of z^2 = (amount - mean)^2 / variance with threshold^2.
\* np.std(amounts) ** 2, the population variance of a non-empty frame.
amount_variance(df) == RDiv(SqDevAmount(df), Num(Cardinality(df)))

\* The square of z_scores[idx] for a row of the given amount, variance > 0.
z_score_sq(amount, mean, variance) ==
    RDiv(RMul(RSub(Num(amount), mean), RSub(Num(amount), mean)), variance)

\* The comparison with the threshold taken as z_scores >= threshold.
exceeds_threshold_inclusive(zsq, threshold) == RLe(RMul(threshold, threshold), zsq)

\* z_scores > self.zscore_threshold
exceeds_threshold(zsq, threshold) == RLt(RMul(threshold, threshold), zsq)

detect_amount_anomalies(df) ==
    IF df = {} \/ Cardinality(df) < 3 THEN {}
    ELSE LET mean     == MeanAmount(df)
             variance == amount_variance(df)
             z_scores == [a \in {r.amount : r \in df} |->
                             z_score_sq(a, mean, variance)]
         IN  IF variance = Num(0) THEN {}
             ELSE {[transaction_id |-> r.transaction_id,
                    date           |-> r.date,
                    category       |-> r.category,
                    amount         |-> r.amount,
                    z_score_sq     |-> z_scores[r.amount]] :
                   r \in {x \in df : exceeds_threshold(z_scores[x.amount],
                                          RISK_THRESHOLDS.anomaly_zscore)}}

get_anomaly_count(df) == Cardinality(detect_amount_anomalies(df))

RECURSIVE IsPowerOfTwo(_)
IsPowerOfTwo(n) == n = 1 \/ (n > 1 /\ n % 2 = 0 /\ IsPowerOfTwo(n \div 2))

\* A rational a float64 holds exactly, for the sizes of the amounts here: a
\* fraction whose denominator is a power of two.
IsRepresentable(x) == IsPowerOfTwo(x[2])

\* The rows whose exact z-score equals the threshold.
rows_at_threshold(df) ==
    IF df = {} \/ Cardinality(df) < 3 \/ amount_variance(df) = Num(0) THEN {}
    ELSE {r \in df : z_score_sq(r.amount, MeanAmount(df), amount_variance(df))
                         = RMul(RISK_THRESHOLDS.anomaly_zscore,
                                RISK_THRESHOLDS.anomaly_zscore)}

\* What detect_amount_anomalies can return in float64.  mean, std and the
\* z-scores are rounded at each step.  A row whose exact z-score differs from
\* the threshold is compared as the exact values are: the error of the
\* rounding is far below the difference.  A row whose exact z-score equals the
\* threshold is computed as exactly the threshold when mean and variance are
\* representable, so that every step is exact; when they are not, the
\* computed z-score lies at the threshold or just off it on either side, and
\* the row is flagged or not.
detect_amount_anomalies_float64(df) ==
    LET exact   == detect_amount_anomalies(df)
        inexact == IF IsRepresentable(MeanAmount(df))
                          /\ IsRepresentable(amount_variance(df))
                   THEN {} ELSE rows_at_threshold(df)
    IN  IF df = {} THEN {{}}
        ELSE {exact \cup
                  {[transaction_id |-> r.transaction_id,
                    date           |-> r.date,
                    category       |-> r.category,
                    amount         |-> r.amount,
                    z_score_sq     |-> z_score_sq(r.amount, MeanAmount(df),
                                                  amount_variance(df))] : r \in T} :
              T \in SUBSET inexact}

detect_overspending_periods(df) ==
    IF df = {} THEN {}
    ELSE LET avg_spending == MeanAmount(df)
             threshold    == RMul(avg_spending, RISK_THRESHOLDS.overspend_threshold)
         IN  \* index: the row's place in the frame, which keeps the entries of
             \* the returned list apart
             {[index     |-> r.transaction_id,
               date      |-> r.date,
               amount    |-> r.amount,
               category  |-> r.category,
               threshold |-> threshold,
               excess    |-> RSub(Num(r.amount), threshold)] :
              r \in {x \in df : RLt(threshold, Num(x.amount))}}

(***************************************************************************)
(* modules/health_score.py: HealthScoreEngine.  The engine holds two       *)
(* frames, analytics.transactions_df (adf) and                             *)
(* anomaly_detector.transactions_df (ddf), each loaded at construction.    *)
(***************************************************************************)
\* _score_delivery_ratio without the max(0, ...) of its last region.
_score_delivery_ratio_unclamped(ratio) ==
    LET threshold == RISK_THRESHOLDS.high_delivery_ratio
        half      == RMul(threshold, Rat(1, 2))
    IN  IF RLe(ratio, half) THEN Num(100)
        ELSE IF RLe(ratio, threshold)
        THEN RSub(Num(100), RMul(RDiv(RSub(ratio, half), half), Num(20)))
        ELSE IF RLe(ratio, RMul(threshold, Num(2)))
        THEN RSub(Num(80), RMul(RDiv(RSub(ratio, threshold), threshold), Num(50)))
        ELSE RSub(Num(30), RMul(RSub(ratio, RMul(threshold, Num(2))), Num(100)))

\* _score_delivery_ratio with the region T < ratio <= 2T falling by 60, not 50.
_score_delivery_ratio_steeper(ratio) ==
    LET threshold == RISK_THRESHOLDS.high_delivery_ratio
        half      == RMul(threshold, Rat(1, 2))
    IN  IF RLe(ratio, half) THEN Num(100)
        ELSE IF RLe(ratio, threshold)
        THEN RSub(Num(100), RMul(RDiv(RSub(ratio, half), half), Num(20)))
        ELSE IF RLe(ratio, RMul(threshold, Num(2)))
        THEN RSub(Num(80), RMul(RDiv(RSub(ratio, threshold), threshold), Num(60)))
        ELSE RMax(Num(0),
                  RSub(Num(30), RMul(RSub(ratio, RMul(threshold, Num(2))), Num(100))))

_score_delivery_ratio(ratio) ==
    LET threshold == RISK_THRESHOLDS.high_delivery_ratio
        half      == RMul(threshold, Rat(1, 2))
    IN  IF RLe(ratio, half) THEN Num(100)
        ELSE IF RLe(ratio, threshold)
        THEN RSub(Num(100), RMul(RDiv(RSub(ratio, half), half), Num(20)))
        ELSE IF RLe(ratio, RMul(threshold, Num(2)))
        THEN RSub(Num(80), RMul(RDiv(RSub(ratio, threshold), threshold), Num(50)))
        ELSE RMax(Num(0),
                  RSub(Num(30), RMul(RSub(ratio, RMul(threshold, Num(2))), Num(100))))

\* The curve of _score_volatility once the frame is known to be non-empty.
_score_normalized_volatility(volatility, avg_amount) ==
    IF avg_amount = Num(0) THEN Num(100)
    ELSE LET normalized_volatility == RDiv(volatility, avg_amount)
         IN  IF RLe(normalized_volatility, Rat(2, 10)) THEN Num(100)
             ELSE IF RLe(normalized_volatility, Rat(5, 10))
             THEN RSub(Num(100),
                       RMul(RDiv(RSub(normalized_volatility, Rat(2, 10)), Rat(3, 10)),
                            Num(20)))
             ELSE IF RLe(normalized_volatility, Num(1))
             THEN RSub(Num(80),
                       RMul(RDiv(RSub(normalized_volatility, Rat(5, 10)), Rat(5, 10)),
                            Num(40)))
             ELSE RMax(Num(0),
                       RSub(Num(40),
                            RMul(RSub(normalized_volatility, Num(1)), Num(30))))

\* _score_volatility returning 0 for an empty frame.
_score_volatility_zero_default(volatility, adf) ==
    IF adf = {} THEN Num(0)
    ELSE _score_normalized_volatility(volatility, MeanAmount(adf))

_score_volatility(volatility, adf) ==
    IF adf = {} THEN Num(100)
    ELSE _score_normalized_volatility(volatility, MeanAmount(adf))

\* _score_anomalies with its last region starting from 90, not 50.
_score_anomalies_misjoined(anomaly_count, total_transactions) ==
    IF total_transactions = 0 THEN Num(100)
    ELSE LET anomaly_rate == Rat(anomaly_count, total_transactions)
         IN  IF anomaly_rate = Num(0) THEN Num(100)
             ELSE IF RLe(anomaly_rate, Rat(5, 100))
             THEN RSub(Num(100), RMul(RDiv(anomaly_rate, Rat(5, 100)), Num(10)))
             ELSE IF RLe(anomaly_rate, Rat(15, 100))
             THEN RSub(Num(90),
                       RMul(RDiv(RSub(anomaly_rate, Rat(5, 100)), Rat(10, 100)),
                            Num(40)))
             ELSE RMax(Num(0),
                       RSub(Num(90), RMul(RSub(anomaly_rate, Rat(15, 100)), Num(200))))

_score_anomalies(anomaly_count, total_transactions) ==
    IF total_transactions = 0 THEN Num(100)
    ELSE LET anomaly_rate == Rat(anomaly_count, total_transactions)
         IN  IF anomaly_rate = Num(0) THEN Num(100)
             ELSE IF RLe(anomaly_rate, Rat(5, 100))
             THEN RSub(Num(100), RMul(RDiv(anomaly_rate, Rat(5, 100)), Num(10)))
             ELSE IF RLe(anomaly_rate, Rat(15, 100))
             THEN RSub(Num(90),
                       RMul(RDiv(RSub(anomaly_rate, Rat(5, 100)), Rat(10, 100)),
                            Num(40)))
             ELSE RMax(Num(0),
                       RSub(Num(50), RMul(RSub(anomaly_rate, Rat(15, 100)), Num(200))))

\* The curve of _score_overspending over the two counts it takes from the frames.
_score_overspend_rate(overspend_count, total_transactions) ==
    IF total_transactions = 0 THEN Num(100)
    ELSE LET overspend_rate == Rat(overspend_count, total_transactions)
         IN  IF overspend_rate = Num(0) THEN Num(100)
             ELSE IF RLe(overspend_rate, Rat(1, 10))
             THEN RSub(Num(100), RMul(RDiv(overspend_rate, Rat(1, 10)), Num(20)))
             ELSE IF RLe(overspend_rate, Rat(25, 100))
             THEN RSub(Num(80),
                       RMul(RDiv(RSub(overspend_rate, Rat(1, 10)), Rat(15, 100)),
                            Num(40)))
             ELSE RMax(Num(0),
                       RSub(Num(40), RMul(RSub(overspend_rate, Rat(25, 100)), Num(100))))

_score_overspending(adf, ddf) ==
    LET overspend_periods  == detect_overspending_periods(ddf)
        total_transactions == Cardinality(adf)
    IN  _score_overspend_rate(Cardinality(overspend_periods), total_transactions)

\* _get_grade with every bound exclusive.
_get_grade_exclusive(score) ==
    IF RLt(Num(90), score) THEN "A+ Excellent"
    ELSE IF RLt(Num(80), score) THEN "A Good"
    ELSE IF RLt(Num(70), score) THEN "B Fair"
    ELSE IF RLt(Num(60), score) THEN "C Needs Improvement"
    ELSE IF RLt(Num(50), score) THEN "D Poor"
    ELSE "F Critical"

_get_grade(score) ==
    IF RLe(Num(90), score) THEN "A+ Excellent"
    ELSE IF RLe(Num(80), score) THEN "A Good"
    ELSE IF RLe(Num(70), score) THEN "B Fair"
    ELSE IF RLe(Num(60), score) THEN "C Needs Improvement"
    ELSE IF RLe(Num(50), score) THEN "D Poor"
    ELSE "F Critical"

_get_status(score) ==
    IF RLe(Num(80), score) THEN "Healthy"
    ELSE IF RLe(Num(60), score) THEN "Moderate"
    ELSE "At Risk"

\* weighted_final_score with the delivery and overspending weights exchanged.
weighted_final_score_swapped(delivery_score, volatility_score, anomaly_score, overspend_score) ==
    LET weights     == HEALTH_SCORE_WEIGHTS
        final_score ==
            RAdd(RAdd(RAdd(RMul(delivery_score, weights.overspending),
                           RMul(volatility_score, weights.volatility)),
                      RMul(anomaly_score, weights.anomaly_frequency)),
                 RMul(overspend_score, weights.delivery_ratio))
    IN  RMax(Num(0), RMin(Num(100), final_score))

\* The weighted final score before rounding, clamped to [0, 100].
weighted_final_score(delivery_score, volatility_score, anomaly_score, overspend_score) ==
    LET weights     == HEALTH_SCORE_WEIGHTS
        final_score ==
            RAdd(RAdd(RAdd(RMul(delivery_score, weights.delivery_ratio),
                           RMul(volatility_score, weights.volatility)),
                      RMul(anomaly_score, weights.anomaly_frequency)),
                 RMul(overspend_score, weights.overspending))
    IN  RMax(Num(0), RMin(Num(100), final_score))

\* The result assembled from the four component scores and the raw metrics.
health_score_result(delivery_score, volatility_score, anomaly_score, overspend_score, delivery_ratio, volatility, anomaly_count) ==
    LET weights     == HEALTH_SCORE_WEIGHTS
        final_score == weighted_final_score(delivery_score, volatility_score,
                                            anomaly_score, overspend_score)
    IN  [final_score |-> Round(final_score, 1),
         components  |->
             [delivery_ratio    |-> [score  |-> Round(delivery_score, 1),
                                     value  |-> Round(RMul(delivery_ratio, Num(100)), 1),
                                     weight |-> weights.delivery_ratio],
              volatility        |-> [score  |-> Round(volatility_score, 1),
                                     value  |-> Round(volatility, 2),
                                     weight |-> weights.volatility],
              anomaly_frequency |-> [score  |-> Round(anomaly_score, 1),
                                     value  |-> anomaly_count,
                                     weight |-> weights.anomaly_frequency],
              overspending      |-> [score  |-> Round(overspend_score, 1),
                                     weight |-> weights.overspending]],
         grade       |-> _get_grade(final_score),
         status      |-> _get_status(final_score)]

calculate_health_score(adf, ddf) ==
    LET delivery_ratio     == calculate_delivery_ratio(adf)
        volatility         == calculate_volatility(adf)
        anomaly_count      == get_anomaly_count(ddf)
        total_transactions == Cardinality(adf)
    IN  health_score_result(_score_delivery_ratio(delivery_ratio),
                            _score_volatility(volatility, adf),
                            _score_anomalies(anomaly_count, total_transactions),
                            _score_overspending(adf, ddf),
                            delivery_ratio, volatility, anomaly_count)

(***************************************************************************)
(* modules/prediction.py: the rule-based part of OverspendPredictor, over  *)
(* its own analytics and anomaly_detector frames.                          *)
(***************************************************************************)
extract_features(adf, ddf) ==
    IF adf = {} THEN <<Num(0), Num(0), Num(0), Num(0)>>
    ELSE <<calculate_delivery_ratio(adf),
           calculate_volatility(adf),
           Num(get_anomaly_count(ddf)),
           Num(Cardinality(detect_overspending_periods(ddf)))>>

\* risk_factors_of with the delivery severity 'High' from 0.4 on, not above it.
risk_factors_of_inclusive(features) ==
    (IF RLt(Rat(25, 100), features[1])
     THEN <<[factor   |-> "High Delivery Spending",
             severity |-> IF RLe(Rat(4, 10), features[1]) THEN "High" ELSE "Moderate"]>>
     ELSE <<>>)
    \o
    (IF RLt(Num(300), features[2])
     THEN <<[factor   |-> "Spending Volatility",
             severity |-> IF RLt(Num(500), features[2]) THEN "High" ELSE "Moderate"]>>
     ELSE <<>>)
    \o
    (IF RLt(Num(3), features[3])
     THEN <<[factor   |-> "Unusual Transactions",
             severity |-> IF RLt(Num(6), features[3]) THEN "High" ELSE "Moderate"]>>
     ELSE <<>>)
    \o
    (IF RLt(Num(1), features[4])
     THEN <<[factor   |-> "Budget Breaches",
             severity |-> IF RLt(Num(3), features[4]) THEN "High" ELSE "Moderate"]>>
     ELSE <<>>)

\* The list of risk factors, in the order the checks are made.
risk_factors_of(features) ==
    (IF RLt(Rat(25, 100), features[1])
     THEN <<[factor   |-> "High Delivery Spending",
             severity |-> IF RLt(Rat(4, 10), features[1]) THEN "High" ELSE "Moderate"]>>
     ELSE <<>>)
    \o
    (IF RLt(Num(300), features[2])
     THEN <<[factor   |-> "Spending Volatility",
             severity |-> IF RLt(Num(500), features[2]) THEN "High" ELSE "Moderate"]>>
     ELSE <<>>)
    \o
    (IF RLt(Num(3), features[3])
     THEN <<[factor   |-> "Unusual Transactions",
             severity |-> IF RLt(Num(6), features[3]) THEN "High" ELSE "Moderate"]>>
     ELSE <<>>)
    \o
    (IF RLt(Num(1), features[4])
     THEN <<[factor   |-> "Budget Breaches",
             severity |-> IF RLt(Num(3), features[4]) THEN "High" ELSE "Moderate"]>>
     ELSE <<>>)

get_risk_factors(adf, ddf) == risk_factors_of(extract_features(adf, ddf))

(***************************************************************************)
(* modules/analytics.py and modules/anomaly.py: the summaries.             *)
(***************************************************************************)
\* A dict with no keys.
EmptyDict == <<>>

\* The k-th smallest amount of a frame, 1 <= k <= len(df).
KthAmount(df, k) ==
    CHOOSE a \in {r.amount : r \in df} :
        /\ Cardinality({r \in df : r.amount < a}) < k
        /\ k <= Cardinality({r \in df : r.amount <= a})

\* df['amount'].median() of a non-empty frame.
MedianAmount(df) ==
    LET n == Cardinality(df)
    IN  IF n % 2 = 1 THEN Num(KthAmount(df, (n + 1) \div 2))
        ELSE Rat(KthAmount(df, n \div 2) + KthAmount(df, n \div 2 + 1), 2)

\* get_summary_stats with the day range of an empty frame taken as 1, the
\* value project_future_spending divides by.
get_summary_stats_unit_range(df) ==
    IF df = {}
    THEN [total_transactions  |-> 0,
          total_spent         |-> Num(0),
          average_transaction |-> Num(0),
          median_transaction  |-> Num(0),
          max_transaction     |-> Num(0),
          min_transaction     |-> Num(0),
          date_range_days     |-> 1]
    ELSE [total_transactions  |-> Cardinality(df),
          total_spent         |-> Num(SumAmount(df)),
          average_transaction |-> MeanAmount(df),
          median_transaction  |-> MedianAmount(df),
          max_transaction     |-> Num(KthAmount(df, Cardinality(df))),
          min_transaction     |-> Num(KthAmount(df, 1)),
          date_range_days     |->
              (CHOOSE d \in {r.date : r \in df} : \A r \in df : r.date <= d)
                  - (CHOOSE d \in {r.date : r \in df} : \A r \in df : d <= r.date)]

get_summary_stats(df) ==
    IF df = {}
    THEN [total_transactions  |-> 0,
          total_spent         |-> Num(0),
          average_transaction |-> Num(0),
          median_transaction  |-> Num(0),
          max_transaction     |-> Num(0),
          min_transaction     |-> Num(0),
          date_range_days     |-> 0]
    ELSE [total_transactions  |-> Cardinality(df),
          total_spent         |-> Num(SumAmount(df)),
          average_transaction |-> MeanAmount(df),
          median_transaction  |-> MedianAmount(df),
          max_transaction     |-> Num(KthAmount(df, Cardinality(df))),
          min_transaction     |-> Num(KthAmount(df, 1)),
          date_range_days     |->
              (CHOOSE d \in {r.date : r \in df} : \A r \in df : r.date <= d)
                  - (CHOOSE d \in {r.date : r \in df} : \A r \in df : d <= r.date)]

\* The anomalies of each category with at least three rows and amounts that
\* are not all equal, against the category's own mean and deviation.
detect_category_anomalies(df) ==
    IF df = {} THEN {}
    ELSE UNION {LET category_df == {r \in df : r.category = category}
                    mean        == MeanAmount(category_df)
                    variance    == amount_variance(category_df)
                IN  IF Cardinality(category_df) < 3 THEN {}
                    ELSE IF variance = Num(0) THEN {}
                    ELSE {[transaction_id   |-> r.transaction_id,
                           date             |-> r.date,
                           category         |-> category,
                           amount           |-> r.amount,
                           z_score_sq       |-> z_score_sq(r.amount, mean, variance),
                           category_average |-> mean] :
                          r \in {x \in category_df :
                                    exceeds_threshold(
                                        z_score_sq(x.amount, mean, variance),
                                        RISK_THRESHOLDS.anomaly_zscore)}}
                : category \in {r.category : r \in df}}

\* The days whose number of transactions is unusual, against the sample
\* deviation of the per-day counts.
detect_frequency_anomalies(df) ==
    IF df = {} THEN EmptyDict
    ELSE LET days         == SetToSeq({r.date : r \in df})
             daily_counts == [i \in 1..Len(days) |->
                                 Cardinality({r \in df : r.date = days[i]})]
             mean_daily   == Rat(Cardinality(df), Len(days))
             variance     == SampleVariance(daily_counts)
         IN  IF Len(days) < 3 THEN EmptyDict
             ELSE IF variance = Num(0) THEN EmptyDict
             ELSE [average_daily_transactions |-> mean_daily,
                   anomalous_days |->
                       {[date |-> days[i], count |-> daily_counts[i]] :
                        i \in {j \in 1..Len(days) :
                                  exceeds_threshold(
                                      RDiv(RMul(RSub(Num(daily_counts[j]), mean_daily),
                                                RSub(Num(daily_counts[j]), mean_daily)),
                                           variance),
                                      RISK_THRESHOLDS.anomaly_zscore)}}]

get_anomaly_summary(df) ==
    LET amount_anomalies   == detect_amount_anomalies(df)
        category_anomalies == detect_category_anomalies(df)
        frequency_analysis == detect_frequency_anomalies(df)
    IN  [total_amount_anomalies   |-> Cardinality(amount_anomalies),
         total_category_anomalies |-> Cardinality(category_anomalies),
         amount_anomalies         |-> amount_anomalies,
         category_anomalies       |-> category_anomalies,
         frequency_analysis       |-> frequency_analysis,
         anomaly_rate             |->
             IF df # {}
             THEN RMul(Rat(Cardinality(amount_anomalies), Cardinality(df)), Num(100))
             ELSE Num(0)]

\* get_budget_comparison keeping only the categories that have a suggested
\* budget.
get_budget_comparison_known_only(df) ==
    LET suggested_budgets == [c \in {"Food Delivery", "Groceries"} |->
                                 IF c = "Food Delivery" THEN 6000 ELSE 8000]
        rows == {[Category   |-> c,
                  Actual     |-> Num(SumAmount({r \in df : r.category = c})),
                  Budget     |-> suggested_budgets[c],
                  Percentage |->
                      Round(RMul(Rat(SumAmount({r \in df : r.category = c}),
                                     suggested_budgets[c]), Num(100)), 0)] :
                 c \in {r.category : r \in df} \cap DOMAIN suggested_budgets}
        n    == Cardinality(rows)
    IN  {t \in [1..n -> rows] :
            /\ \A i, j \in 1..n : i < j => t[i] # t[j] /\ RLe(t[j].Actual, t[i].Actual)}

\* The rows of the returned frame, in the possible orders of
\* sort_values('Actual', ascending=False): one row per category of the frame,
\* with the suggested budget of the category, 5000 where it has none, and the
\* percentage rounded to a whole number.  Of the ten suggested budgets the two
\* of Categories are kept.
get_budget_comparison(df) ==
    LET suggested_budgets == [c \in {"Food Delivery", "Groceries"} |->
                                 IF c = "Food Delivery" THEN 6000 ELSE 8000]
        budget(c) == IF c \in DOMAIN suggested_budgets
                     THEN suggested_budgets[c] ELSE 5000
        rows == {[Category   |-> c,
                  Actual     |-> Num(SumAmount({r \in df : r.category = c})),
                  Budget     |-> budget(c),
                  Percentage |->
                      Round(RMul(Rat(SumAmount({r \in df : r.category = c}),
                                     budget(c)), Num(100)), 0)] :
                 c \in {r.category : r \in df}}
        n    == Cardinality(rows)
    IN  {t \in [1..n -> rows] :
            /\ \A i, j \in 1..n : i < j => t[i] # t[j] /\ RLe(t[j].Actual, t[i].Actual)}

\* The returned frame as a sequence of rows: the weekly sums of the rows dated
\* at or after now - 8 weeks, in week order, then four projected rows when at
\* least two weeks have a sum.  today carries a time of day, so
\* (today - date).days is Today - date for a date before or after today, and
\* date >= eight_weeks_ago means date > Today - 56.  diff().mean() is the mean
\* of the differences of consecutive rows, (last - first) / (rows - 1).
get_monthly_trend_with_projection(df) ==
    LET recent  == {r \in df : r.date > Today - 56}
        week(r) == 8 - ((Today - r.date) \div 7)
        weeks   == {week(r) : r \in recent} \cap {w \in -100..100 : w > 0}
        n       == Cardinality(weeks)
        nth(i)  == CHOOSE w \in weeks : Cardinality({v \in weeks : v < w}) = i - 1
        weekly_trend == [i \in 1..n |->
                            [Week   |-> nth(i),
                             Amount |-> Num(SumAmount({r \in recent : week(r) = nth(i)})),
                             Type   |-> "Actual"]]
    IN  IF df = {} \/ recent = {} THEN <<>>
        ELSE IF n >= 2
        THEN LET avg_growth  == RDiv(RSub(weekly_trend[n].Amount, weekly_trend[1].Amount),
                                     Num(n - 1))
                 last_amount == weekly_trend[n].Amount
             IN  weekly_trend \o
                     [i \in 1..4 |->
                         [Week   |-> nth(n) + i,
                          Amount |-> RMax(RAdd(last_amount, RMul(avg_growth, Num(i))),
                                          Num(0)),
                          Type   |-> "Projected"]]
        ELSE weekly_trend

(***************************************************************************)
(* State.                                                                  *)
(*   transactions  the rows of the transactions table                      *)
(*   metrics       the rows of the metrics table, in insertion order       *)
(*   ret           the store or snapshot operation last called, with its   *)
(*                 arguments and what it returned                          *)
(*   df            the transactions_df an engine under analysis loaded     *)
(*   out           the operation last invoked on that engine and what it   *)
(*                 returned                                                *)
(*   probe         the raw metrics the scoring curves are evaluated at     *)
(*   chatbot       st.session_state.chatbot: the frame its engines loaded  *)
(*                 when it was constructed                                 *)
(*   model_file    the file at ML_MODEL_PATH                               *)
(*   predictors    the OverspendPredictor objects under construction, each *)
(*                 with its place in __init__                              *)
(*   calls         the calls in progress on objects of their own, run in   *)
(*                 separate sessions: each with its arguments, its place   *)
(*                 in the code and its locals                              *)
(***************************************************************************)
VARIABLES transactions, metrics, ret, df, out, probe, chatbot, model_file, predictors,
          calls

vars == <<transactions, metrics, ret, df, out, probe, chatbot, model_file, predictors, calls>>

\* The rows a store can hold for one user: (date, amount, category) is unique.
Universe == [date : Dates, category : Categories, amount : Amounts]

CategoryNo(c) == IF c = "Food Delivery" THEN 1 ELSE 2

\* The transaction_id of a row: rowids are distinct positive integers and no
\* analysis computes with them.
RowId(t) == (t.date * 10 + CategoryNo(t.category)) * 10000 + t.amount + 1

\* The frame read from a set of rows of one user.
frame_of(S) ==
    {[transaction_id |-> RowId(t), date |-> t.date,
      category |-> t.category, amount |-> t.amount] : t \in S}

\* No engine under analysis.
NoEngine == df = {} /\ out = [op |-> "none"]

\* No raw metrics under evaluation.
NoProbe == probe = [coordinate |-> "none"]

\* No chat session and no predictor under construction.
NoSession == chatbot = [constructed |-> FALSE]

NoPredictor == model_file = [exists |-> FALSE] /\ predictors = <<>>

\* No call in progress.
NoCalls == calls = <<>>

\* An empty database on which nothing has been called.
EmptyStore == transactions = {} /\ metrics = <<>> /\ ret = [op |-> "none"]

(***************************************************************************)
(* Spec: the transaction store and the snapshot log, shared by the users.  *)
(***************************************************************************)
\* date.strftime('%Y-%m-%d') for a datetime, the string itself otherwise: the
\* stored date is the calendar day.
to_date_string(date) == date.day

\* The dates a caller passes: a date string, or a datetime with a time of day.
DateInputs ==
    {[day |-> d, type |-> "str"] : d \in StoreDates}
        \cup {[day |-> d, type |-> "datetime", hour |-> 13] : d \in StoreDates}

\* SELECT COUNT(*) ... WHERE user_id = ? AND date = ? AND amount = ? AND category = ?
duplicate_count(rows, user_id, date, amount, category) ==
    Cardinality({r \in rows : /\ r.user_id = user_id
                              /\ r.date = to_date_string(date)
                              /\ r.amount = amount
                              /\ r.category = category})

\* _is_duplicate reading the count as result[0] > 1.
_is_duplicate_above_one(rows, user_id, date, amount, category) ==
    duplicate_count(rows, user_id, date, amount, category) > 1

_is_duplicate(rows, user_id, date, amount, category) ==
    duplicate_count(rows, user_id, date, amount, category) > 0

\* cursor.lastrowid of an insert: one more than the largest rowid of the table.
lastrowid(rows) ==
    IF rows = {} THEN 1
    ELSE (CHOOSE m \in {r.transaction_id : r \in rows} :
              \A r \in rows : r.transaction_id <= m) + 1

add_transaction(user_id, date, category, amount) ==
    /\ \/ _is_duplicate(transactions, user_id, date, amount, category)
       \/ lastrowid(transactions) <= MaxRowId
    /\ IF _is_duplicate(transactions, user_id, date, amount, category)
       THEN /\ ret' = [op |-> "add_transaction", user_id |-> user_id,
                       date |-> to_date_string(date), category |-> category,
                       amount |-> amount, returned |-> "None"]
            /\ UNCHANGED transactions
       ELSE /\ transactions' = transactions \cup
                   {[transaction_id |-> lastrowid(transactions),
                     user_id        |-> user_id,
                     date           |-> to_date_string(date),
                     category       |-> category,
                     amount         |-> amount]}
            /\ ret' = [op |-> "add_transaction", user_id |-> user_id,
                       date |-> to_date_string(date), category |-> category,
                       amount |-> amount, returned |-> "lastrowid",
                       lastrowid |-> lastrowid(transactions)]
    /\ UNCHANGED <<metrics, df, out, probe, chatbot, model_file, predictors, calls>>

\* delete_transaction with DELETE ... WHERE transaction_id = ? alone.
delete_transaction_any_user(user_id, transaction_id) ==
    /\ transactions' = {r \in transactions : r.transaction_id # transaction_id}
    /\ ret' = [op |-> "delete_transaction", returned |-> "True"]
    /\ UNCHANGED <<metrics, df, out, probe, chatbot, model_file, predictors, calls>>

delete_transaction(user_id, transaction_id) ==
    /\ transactions' = {r \in transactions :
                           ~(r.transaction_id = transaction_id /\ r.user_id = user_id)}
    /\ ret' = [op |-> "delete_transaction", returned |-> "True"]
    /\ UNCHANGED <<metrics, df, out, probe, chatbot, model_file, predictors, calls>>

\* _load_transactions: SELECT ... FROM transactions WHERE user_id = ?
_load_transactions(rows, user_id) ==
    {[transaction_id |-> r.transaction_id, date |-> r.date,
      category |-> r.category, amount |-> r.amount] :
     r \in {x \in rows : x.user_id = user_id}}

\* _calculate_simple_risk weighting the three terms equally.
_calculate_simple_risk_equal_weights(delivery_ratio, volatility, anomaly_count) ==
    LET risk == RDiv(RAdd(RAdd(delivery_ratio,
                               RMin(RDiv(volatility, Num(1000)), Num(1))),
                          RMin(Rat(anomaly_count, 10), Num(1))),
                     Num(3))
    IN  RMin(RMax(risk, Num(0)), Num(1))

_calculate_simple_risk(delivery_ratio, volatility, anomaly_count) ==
    LET risk == RAdd(RAdd(RMul(delivery_ratio, Rat(4, 10)),
                          RMul(RMin(RDiv(volatility, Num(1000)), Num(1)), Rat(3, 10))),
                     RMul(RMin(Rat(anomaly_count, 10), Num(1)), Rat(3, 10)))
    IN  RMin(RMax(risk, Num(0)), Num(1))

\* The calculated_at a new metrics row is given: the column's default, the
\* current time in whole seconds, which is the time of the previous insert or
\* a later one.
calculated_at_defaults(rows) ==
    IF rows = <<>> THEN {1}
    ELSE {rows[Len(rows)].calculated_at, rows[Len(rows)].calculated_at + 1}

\* save_metrics keeping one snapshot per user: the user's earlier rows are
\* replaced by the new one.
save_metrics_keep_latest(user_id) ==
    /\ Len(metrics) < MaxSnap
    /\ LET adf        == _load_transactions(transactions, user_id)
           score_data == calculate_health_score(adf, adf)
           volatility == calculate_volatility(adf)
           ratio      == RDiv(get_delivery_metrics(adf).delivery_percentage, Num(100))
       IN  \E now \in calculated_at_defaults(metrics) :
               /\ metrics' = Append(SelectSeq(metrics, LAMBDA m : m.user_id # user_id),
                                 [user_id        |-> user_id,
                                  health_score   |-> score_data.final_score,
                                  overspend_risk |->
                                      _calculate_simple_risk(ratio, volatility,
                                                             get_anomaly_count(adf)),
                                  volatility     |-> volatility,
                                  delivery_ratio |-> ratio,
                                  anomaly_count  |-> get_anomaly_count(adf),
                                  calculated_at  |-> now])
               /\ ret' = [op |-> "save_metrics", user_id |-> user_id,
                          returned |-> score_data]
    /\ UNCHANGED <<transactions, df, out, probe, chatbot, model_file, predictors, calls>>

\* HealthScoreEngine(user_id).save_metrics(): both frames are loaded at
\* construction, the score is computed and one row is inserted.
insert_metrics(user_id) ==
    /\ LET adf              == _load_transactions(transactions, user_id)
           ddf              == _load_transactions(transactions, user_id)
           score_data       == calculate_health_score(adf, ddf)
           delivery_metrics == get_delivery_metrics(adf)
           volatility       == calculate_volatility(adf)
           anomaly_count    == get_anomaly_count(ddf)
           delivery_ratio   == RDiv(delivery_metrics.delivery_percentage, Num(100))
           overspend_risk   == _calculate_simple_risk(delivery_ratio, volatility,
                                                      anomaly_count)
       IN  \E now \in calculated_at_defaults(metrics) :
               /\ metrics' = Append(metrics,
                                 [user_id        |-> user_id,
                                  health_score   |-> score_data.final_score,
                                  overspend_risk |-> overspend_risk,
                                  volatility     |-> volatility,
                                  delivery_ratio |-> delivery_ratio,
                                  anomaly_count  |-> anomaly_count,
                                  calculated_at  |-> now])
               /\ ret' = [op |-> "save_metrics", user_id |-> user_id,
                          returned |-> score_data]
    /\ UNCHANGED <<transactions, df, out, probe, chatbot, model_file, predictors, calls>>

\* save_metrics while the log holds fewer than MaxSnap snapshots.
save_metrics(user_id) ==
    /\ Len(metrics) < MaxSnap
    /\ insert_metrics(user_id)

\* The results of SELECT ... WHERE user_id = ? ORDER BY calculated_at DESC
\* LIMIT 2: the places in the table of at most two rows of the user, no row
\* left out being later than one returned, rows of equal calculated_at in
\* either order.
latest_two(rows, user_id) ==
    LET mine == {i \in 1..Len(rows) : rows[i].user_id = user_id}
        n    == IF Cardinality(mine) < 2 THEN Cardinality(mine) ELSE 2
    IN  {s \in [1..n -> mine] :
            /\ \A i, j \in 1..n : i < j =>
                   /\ s[i] # s[j]
                   /\ rows[s[i]].calculated_at >= rows[s[j]].calculated_at
            /\ \A k \in mine : (\A i \in 1..n : s[i] # k) =>
                   \A i \in 1..n : rows[s[i]].calculated_at >= rows[k].calculated_at}

get_previous_score(user_id) ==
    /\ \E results \in latest_two(metrics, user_id) :
           IF Len(results) >= 2
           THEN ret' = [op |-> "get_previous_score", user_id |-> user_id,
                        returned |-> "dict",
                        previous_score |-> metrics[results[2]].health_score,
                        current_score  |-> metrics[results[1]].health_score,
                        change |-> RSub(metrics[results[1]].health_score,
                                        metrics[results[2]].health_score),
                        calculated_at |-> metrics[results[2]].calculated_at]
           ELSE ret' = [op |-> "get_previous_score", user_id |-> user_id,
                        returned |-> "None"]
    /\ UNCHANGED <<transactions, metrics, df, out, probe, chatbot, model_file, predictors, calls>>

Init == EmptyStore /\ NoEngine /\ NoProbe /\ NoSession /\ NoPredictor /\ NoCalls

Next ==
    \/ \E u \in Users, date \in DateInputs, c \in Categories, a \in StoreAmounts :
           add_transaction(u, date, c, a)
    \/ \E u \in Users, id \in 1..MaxRowId : delete_transaction(u, id)
    \/ \E u \in Users : save_metrics(u)
    \/ \E u \in Users : get_previous_score(u)

Spec == Init /\ [][Next]_vars

(***************************************************************************)
(* SpecScore: one constructed engine and an analysis operation invoked on  *)
(* it.  The engine's analytics and anomaly_detector frames are loaded from *)
(* the same store contents.  No operation writes to the frames, so a       *)
(* second call on the same engine returns what a first call returns: every *)
(* pair of a frame and a result is reached by the first call.              *)
(***************************************************************************)
InitScore ==
    /\ EmptyStore
    /\ NoProbe
    /\ NoSession
    /\ NoCalls
    /\ NoPredictor
    /\ df \in {frame_of(S) :
                  S \in {X \in SUBSET Universe : Cardinality(X) <= MaxTx}}
    /\ out = [op |-> "none"]

FirstCall == out.op = "none"

CalculateHealthScore ==
    /\ FirstCall
    /\ out' = [op |-> "calculate_health_score",
               result |-> calculate_health_score(df, df)]
    /\ UNCHANGED <<df, probe, transactions, metrics, ret, chatbot, model_file, predictors, calls>>

CalculateDeliveryRatio ==
    /\ FirstCall
    /\ out' = [op |-> "calculate_delivery_ratio",
               result |-> calculate_delivery_ratio(df)]
    /\ UNCHANGED <<df, probe, transactions, metrics, ret, chatbot, model_file, predictors, calls>>

GetWeeklyComparison ==
    /\ FirstCall
    /\ out' = [op |-> "get_weekly_comparison",
               result |-> get_weekly_comparison(df)]
    /\ UNCHANGED <<df, probe, transactions, metrics, ret, chatbot, model_file, predictors, calls>>

DetectAmountAnomalies ==
    /\ FirstCall
    /\ out' = [op |-> "detect_amount_anomalies",
               result |-> detect_amount_anomalies(df)]
    /\ UNCHANGED <<df, probe, transactions, metrics, ret, chatbot, model_file, predictors, calls>>

GetRiskFactors ==
    /\ FirstCall
    /\ out' = [op |-> "get_risk_factors",
               result |-> get_risk_factors(df, df)]
    /\ UNCHANGED <<df, probe, transactions, metrics, ret, chatbot, model_file, predictors, calls>>

NextScore ==
    \/ CalculateHealthScore
    \/ CalculateDeliveryRatio
    \/ GetWeeklyComparison
    \/ DetectAmountAnomalies
    \/ GetRiskFactors

SpecScore == InitScore /\ [][NextScore]_vars

(***************************************************************************)
(* Claims about the scores of one engine (SpecScore).                      *)
(***************************************************************************)
InRange(x) == RLe(Num(0), x) /\ RLe(x, Num(100))

\* A finite number: neither NaN nor an infinity.
IsNumber(x) == x[2] > 0

\* The four component scores as the _score_ functions return them for the frame.
DeliveryScoreOf(d)   == _score_delivery_ratio(calculate_delivery_ratio(d))
VolatilityScoreOf(d) == _score_volatility(calculate_volatility(d), d)
AnomalyScoreOf(d)    == _score_anomalies(get_anomaly_count(d), Cardinality(d))
OverspendScoreOf(d)  == _score_overspending(d, d)

\* C1: for every transaction set with non-negative amounts, the four component
\* scores, as computed and as reported, and the final score lie in [0, 100].
C1_ScoresClamped ==
    (out.op = "calculate_health_score" /\ \A r \in df : r.amount >= 0) =>
        LET c == out.result.components
        IN  /\ InRange(DeliveryScoreOf(df))
            /\ InRange(VolatilityScoreOf(df))
            /\ InRange(AnomalyScoreOf(df))
            /\ InRange(OverspendScoreOf(df))
            /\ InRange(c.delivery_ratio.score)
            /\ InRange(c.volatility.score)
            /\ InRange(c.anomaly_frequency.score)
            /\ InRange(c.overspending.score)
            /\ InRange(out.result.final_score)

\* C1 witness: a score computed for a frame spent wholly on delivery, where the
\* delivery curve is cut off at 0.
C1_Witness ==
    /\ out.op = "calculate_health_score"
    /\ df # {}
    /\ calculate_delivery_ratio(df) = Num(1)
    /\ out.result.components.delivery_ratio.score = Num(0)

\* The weighted sum, rounded to one decimal, of the component scores that the
\* result reports.
ReportedWeightedSum(result) ==
    LET c == result.components
    IN  Round(RAdd(RAdd(RAdd(RMul(c.delivery_ratio.score, Rat(30, 100)),
                             RMul(c.volatility.score, Rat(25, 100))),
                        RMul(c.anomaly_frequency.score, Rat(25, 100))),
                   RMul(c.overspending.score, Rat(20, 100))), 1)

\* C2 as claimed: final_score equals the rounded weighted sum of the component
\* scores reported in the same result.
C2_WeightedSumOfReported ==
    out.op = "calculate_health_score" =>
        out.result.final_score = ReportedWeightedSum(out.result)

\* C2 as amended: final_score is the rounded weighted sum (weights 0.30, 0.25,
\* 0.25, 0.20) of the component scores before they are rounded, each reported
\* score is its component score rounded to one decimal, and final_score is
\* within 0.1 of the rounded weighted sum of the reported scores.
C2_WeightedSumOfUnrounded ==
    out.op = "calculate_health_score" =>
        LET c == out.result.components
            f == out.result.final_score
            g == ReportedWeightedSum(out.result)
        IN  /\ f = Round(RAdd(RAdd(RAdd(RMul(DeliveryScoreOf(df), Rat(30, 100)),
                                        RMul(VolatilityScoreOf(df), Rat(25, 100))),
                                   RMul(AnomalyScoreOf(df), Rat(25, 100))),
                              RMul(OverspendScoreOf(df), Rat(20, 100))), 1)
            /\ c.delivery_ratio.score = Round(DeliveryScoreOf(df), 1)
            /\ c.volatility.score = Round(VolatilityScoreOf(df), 1)
            /\ c.anomaly_frequency.score = Round(AnomalyScoreOf(df), 1)
            /\ c.overspending.score = Round(OverspendScoreOf(df), 1)
            /\ RLe(RSub(f, g), Rat(1, 10))
            /\ RLe(RSub(g, f), Rat(1, 10))

\* C2 witness: a result whose final_score is not the rounded weighted sum of
\* its reported component scores.
C2_Witness ==
    /\ out.op = "calculate_health_score"
    /\ out.result.final_score # ReportedWeightedSum(out.result)

\* The frame holds exactly the amounts 100, 100, 100, 100, 1000.
FourHundredsAndAThousand ==
    /\ Cardinality(df) = 5
    /\ Cardinality({r \in df : r.amount = 100}) = 4
    /\ Cardinality({r \in df : r.amount = 1000}) = 1

\* C5 as claimed: on the amounts 100, 100, 100, 100, 1000 the z-score of the
\* 1000 transaction exceeds 2.0 and that transaction is the only one flagged.
C5_OutlierFlagged ==
    (out.op = "detect_amount_anomalies" /\ FourHundredsAndAThousand) =>
        /\ RLt(Num(4), z_score_sq(1000, MeanAmount(df), amount_variance(df)))
        /\ Cardinality(out.result) = 1
        /\ \A a \in out.result : a.amount = 1000

\* C5 as amended: on the amounts 100, 100, 100, 100, 1000 the mean is 280, the
\* population variance 360^2 and the z-score of the 1000 transaction exactly
\* 2.0, which is not above the threshold, so nothing is flagged.
C5_OutlierAtThreshold ==
    (out.op = "detect_amount_anomalies" /\ FourHundredsAndAThousand) =>
        /\ MeanAmount(df) = Num(280)
        /\ amount_variance(df) = Num(360 * 360)
        /\ z_score_sq(1000, MeanAmount(df), amount_variance(df)) = Num(4)
        /\ out.result = {}

\* C5 witness: detect_amount_anomalies has run on the amounts of the claim.
C5_Witness == out.op = "detect_amount_anomalies" /\ FourHundredsAndAThousand

\* C7 as claimed: with a zero denominator the delivery ratio, the weekly change
\* percentage and the volatility, anomaly and overspending scores are all 0.
C7_ZeroOnZeroDenominator ==
    /\ (out.op = "calculate_delivery_ratio" /\ SumAmount(df) = 0) =>
           out.result = Num(0)
    /\ (out.op = "get_weekly_comparison" /\ out.result.previous_week = Num(0)) =>
           out.result.change_percentage = Num(0)
    /\ (out.op = "calculate_health_score" /\ SumAmount(df) = 0) =>
           out.result.components.volatility.score = Num(0)
    /\ (out.op = "calculate_health_score" /\ df = {}) =>
           /\ out.result.components.anomaly_frequency.score = Num(0)
           /\ out.result.components.overspending.score = Num(0)

\* C7 as amended: with a zero denominator every one of the five returns a
\* finite number without raising: the delivery ratio and the weekly change
\* percentage return 0, and the volatility, anomaly and overspending scores
\* return 100.
C7_ZeroDenominatorDefaults ==
    /\ (out.op = "calculate_delivery_ratio" /\ SumAmount(df) = 0) =>
           out.result = Num(0)
    /\ (out.op = "get_weekly_comparison" /\ out.result.previous_week = Num(0)) =>
           out.result.change_percentage = Num(0)
    /\ (out.op = "calculate_health_score" /\ SumAmount(df) = 0) =>
           /\ VolatilityScoreOf(df) = Num(100)
           /\ out.result.components.volatility.score = Num(100)
    /\ (out.op = "calculate_health_score" /\ df = {}) =>
           /\ AnomalyScoreOf(df) = Num(100)
           /\ OverspendScoreOf(df) = Num(100)
           /\ out.result.components.anomaly_frequency.score = Num(100)
           /\ out.result.components.overspending.score = Num(100)
    /\ out.op = "calculate_delivery_ratio" => IsNumber(out.result)
    /\ out.op = "get_weekly_comparison" => IsNumber(out.result.change_percentage)
    /\ out.op = "calculate_health_score" =>
           /\ IsNumber(out.result.final_score)
           /\ IsNumber(out.result.components.volatility.score)
           /\ IsNumber(out.result.components.anomaly_frequency.score)
           /\ IsNumber(out.result.components.overspending.score)

\* C7 witness: a health score computed for a non-empty frame whose amounts are
\* all 0, so that total spend and mean amount are 0.
C7_Witness ==
    /\ out.op = "calculate_health_score"
    /\ df # {}
    /\ SumAmount(df) = 0

\* C8: the rate-based scores are 100 on a zero denominator (empty frame or mean
\* amount 0 for volatility, no transactions for anomalies and overspending),
\* and the health score of an empty transaction set is 100 with every
\* component score 100.
C8_HundredOnZeroDenominator ==
    out.op = "calculate_health_score" =>
        LET c == out.result.components
        IN  /\ SumAmount(df) = 0 =>
                   /\ VolatilityScoreOf(df) = Num(100)
                   /\ c.volatility.score = Num(100)
            /\ df = {} =>
                   /\ AnomalyScoreOf(df) = Num(100)
                   /\ OverspendScoreOf(df) = Num(100)
                   /\ out.result.final_score = Num(100)
                   /\ c.delivery_ratio.score = Num(100)
                   /\ c.volatility.score = Num(100)
                   /\ c.anomaly_frequency.score = Num(100)
                   /\ c.overspending.score = Num(100)

\* C8 witness: a health score computed for the empty transaction set.
C8_Witness == out.op = "calculate_health_score" /\ df = {}

\* Food Delivery is 40% of the total spend of the frame.
DeliveryIsFortyPercent == calculate_delivery_ratio(df) = Rat(4, 10)

\* C9 as claimed: at a delivery ratio of 0.4 the delivery component score is
\* strictly less than 50.
C9_DeliveryScoreBelowFifty ==
    (out.op = "calculate_health_score" /\ DeliveryIsFortyPercent) =>
        /\ RLt(DeliveryScoreOf(df), Num(50))
        /\ RLt(out.result.components.delivery_ratio.score, Num(50))

\* C9 as amended: at a delivery ratio of 0.4, which lies in the region
\* T < ratio <= 2T, the delivery component score is exactly 50: at most 50 and
\* not strictly less.
C9_DeliveryScoreIsFifty ==
    (out.op = "calculate_health_score" /\ DeliveryIsFortyPercent) =>
        /\ DeliveryScoreOf(df) = Num(50)
        /\ out.result.components.delivery_ratio.score = Num(50)

\* C9 witness: a health score computed for a frame with delivery ratio 0.4.
C9_Witness == out.op = "calculate_health_score" /\ DeliveryIsFortyPercent

\* C10 as claimed: at a delivery ratio of 0.4 the risk factors include
\* 'High Delivery Spending' with severity 'High'.
C10_DeliverySeverityHigh ==
    (out.op = "get_risk_factors" /\ DeliveryIsFortyPercent) =>
        \E i \in 1..Len(out.result) :
            /\ out.result[i].factor = "High Delivery Spending"
            /\ out.result[i].severity = "High"

\* C10 as amended: at a delivery ratio of 0.4 the risk factors include exactly
\* one 'High Delivery Spending' entry and its severity is 'Moderate', the
\* severity being 'High' only above 0.4.
C10_DeliverySeverityModerate ==
    (out.op = "get_risk_factors" /\ DeliveryIsFortyPercent) =>
        /\ Cardinality({i \in 1..Len(out.result) :
                          out.result[i].factor = "High Delivery Spending"}) = 1
        /\ \A i \in 1..Len(out.result) :
               out.result[i].factor = "High Delivery Spending" =>
                   out.result[i].severity = "Moderate"

\* C10 witness: the risk factors computed for a frame with delivery ratio 0.4.
C10_Witness == out.op = "get_risk_factors" /\ DeliveryIsFortyPercent

\* The grade and the status that the documented mapping gives a score.
GradeOf(x) ==
    IF RLe(Num(90), x) THEN "A+ Excellent"
    ELSE IF RLe(Num(80), x) THEN "A Good"
    ELSE IF RLe(Num(70), x) THEN "B Fair"
    ELSE IF RLe(Num(60), x) THEN "C Needs Improvement"
    ELSE IF RLe(Num(50), x) THEN "D Poor"
    ELSE "F Critical"

StatusOf(x) ==
    IF RLe(Num(80), x) THEN "Healthy"
    ELSE IF RLe(Num(60), x) THEN "Moderate"
    ELSE "At Risk"

\* The clamped weighted sum of the frame's component scores, before rounding.
UnroundedFinalOf(d) ==
    LET sum == RAdd(RAdd(RAdd(RMul(DeliveryScoreOf(d), Rat(30, 100)),
                              RMul(VolatilityScoreOf(d), Rat(25, 100))),
                         RMul(AnomalyScoreOf(d), Rat(25, 100))),
                    RMul(OverspendScoreOf(d), Rat(20, 100)))
    IN  RMax(Num(0), RMin(Num(100), sum))

\* C19 as claimed: in every result of calculate_health_score the grade and the
\* status are those the mapping gives the final_score of that result.
C19_GradeOfReturnedScore ==
    out.op = "calculate_health_score" =>
        /\ out.result.grade = GradeOf(out.result.final_score)
        /\ out.result.status = StatusOf(out.result.final_score)

\* C19 as amended: the grade and the status are those the mapping gives the
\* clamped weighted sum before it is rounded to one decimal; they are those of
\* the returned final_score too unless the sum lies less than 0.05 below a
\* bound of the mapping, where the returned final_score is that bound and the
\* grade and status are the ones below it.
C19_GradeOfUnroundedScore ==
    out.op = "calculate_health_score" =>
        LET f == UnroundedFinalOf(df)
            r == out.result.final_score
        IN  /\ r = Round(f, 1)
            /\ out.result.grade = GradeOf(f)
            /\ out.result.status = StatusOf(f)
            /\ (out.result.grade # GradeOf(r) \/ out.result.status # StatusOf(r)) =>
                   /\ r \in {Num(90), Num(80), Num(70), Num(60), Num(50)}
                   /\ RLt(f, r)
                   /\ RLe(RSub(r, f), Rat(5, 100))

\* C19 witness: a result whose final_score is 70.0 and whose grade is
\* 'C Needs Improvement', the sum before rounding being just below 70.
C19_Witness ==
    /\ out.op = "calculate_health_score"
    /\ out.result.final_score = Num(70)
    /\ out.result.grade = "C Needs Improvement"

\* C24: get_weekly_comparison labels the trend as exactly one of 'increasing'
\* (change above 10), 'decreasing' (change below -10) and 'stable' (otherwise)
\* for every transaction set; no transaction is counted in both weekly sums;
\* and the change is 0 when the previous week's sum is 0.
C24_TrendOfThreeLabels ==
    out.op = "get_weekly_comparison" =>
        LET r == out.result
        IN  /\ r.trend \in {"increasing", "decreasing", "stable"}
            /\ r.trend = "increasing" <=> RLt(Num(10), r.change_percentage)
            /\ r.trend = "decreasing" <=> RLt(r.change_percentage, Num(-10))
            /\ RAdd(r.current_week, r.previous_week) =
                   Num(SumAmount({x \in df : x.date > Today - 14 /\ x.date <= Today}))
            /\ r.previous_week = Num(0) => r.change_percentage = Num(0)

(***************************************************************************)
(* Claims about the store and the snapshot log (Spec).                     *)
(***************************************************************************)
\* Two rows of one user with the same (date, amount, category).
SameTuple(r1, r2) ==
    /\ r1.user_id = r2.user_id
    /\ r1.date = r2.date
    /\ r1.amount = r2.amount
    /\ r1.category = r2.category

NoTwoRowsAlike == \A r1, r2 \in transactions : SameTuple(r1, r2) => r1 = r2

\* The step is an add_transaction call whose tuple the store already holds for
\* the calling user.
AddOfExistingTuple ==
    /\ ret'.op = "add_transaction"
    /\ \E r \in transactions : SameTuple(r, ret')

\* C3: whatever add_transaction and delete_transaction calls are made, one at a
\* time, the store never holds two rows of one user with the same (date,
\* amount, category), and an add_transaction whose tuple the user already has
\* returns None and leaves every stored row as it was.
C3_DuplicateRejected ==
    /\ []NoTwoRowsAlike
    /\ [][AddOfExistingTuple =>
              (ret'.returned = "None" /\ transactions' = transactions)]_vars

\* C3 witness: add_transaction has returned None for a tuple the user already
\* has, while the other user holds a row with the same date, amount and
\* category.
C3_Witness ==
    /\ ret.op = "add_transaction"
    /\ ret.returned = "None"
    /\ \E r \in transactions : SameTuple(r, ret)
    /\ \E r \in transactions :
           /\ r.user_id # ret.user_id
           /\ r.date = ret.date /\ r.amount = ret.amount /\ r.category = ret.category

\* The snapshots of a user, in the order save_metrics appended them.
SnapshotsOf(user_id) == SelectSeq(metrics, LAMBDA m : m.user_id = user_id)

\* C4 as claimed: get_previous_score returns the score of the user's snapshot
\* appended last as current_score, the score of the one appended just before it
\* as previous_score and their difference as change, and returns None when the
\* user has fewer than two snapshots.
C4_LastTwoAppended ==
    ret.op = "get_previous_score" =>
        LET mine == SnapshotsOf(ret.user_id)
            n    == Len(mine)
        IN  IF n >= 2
            THEN /\ ret.returned = "dict"
                 /\ ret.current_score = mine[n].health_score
                 /\ ret.previous_score = mine[n - 1].health_score
                 /\ ret.change = RSub(mine[n].health_score, mine[n - 1].health_score)
            ELSE ret.returned = "None"

(***************************************************************************)
(* SpecCurve: the scoring curves of HealthScoreEngine evaluated at two     *)
(* vectors of raw metrics, lo and hi, that differ in one coordinate, hi    *)
(* having the larger value there.  A vector is the delivery ratio, the     *)
(* volatility of a frame whose mean amount is CurveAvgAmount, and the      *)
(* anomaly and overspending counts of a frame of CurveTotal transactions.  *)
(***************************************************************************)
RatioGrid == {Rat(k, RatioSteps) : k \in 0..RatioSteps}

VolatilityGrid == {k * VolatilityStep : k \in 0..VolatilitySteps}

CountGrid == 0..CurveTotal

CoarseMetrics ==
    [delivery_ratio  : {Num(0), Rat(3, 10), Rat(6, 10)},
     volatility      : {0, 5 * VolatilityStep, 15 * VolatilityStep},
     anomaly_count   : {0, 2, CurveTotal \div 2},
     overspend_count : {0, CurveTotal \div 4}]

InitCurve ==
    /\ EmptyStore
    /\ NoEngine
    /\ NoSession
    /\ NoCalls
    /\ NoPredictor
    /\ \E b \in CoarseMetrics :
           \/ \E x, y \in RatioGrid :
                  /\ RLe(x, y)
                  /\ probe = [coordinate |-> "delivery_ratio",
                              lo |-> [b EXCEPT !.delivery_ratio = x],
                              hi |-> [b EXCEPT !.delivery_ratio = y]]
           \/ \E x, y \in VolatilityGrid :
                  /\ x <= y
                  /\ probe = [coordinate |-> "volatility",
                              lo |-> [b EXCEPT !.volatility = x],
                              hi |-> [b EXCEPT !.volatility = y]]
           \/ \E x, y \in CountGrid :
                  /\ x <= y
                  /\ probe = [coordinate |-> "anomaly_count",
                              lo |-> [b EXCEPT !.anomaly_count = x],
                              hi |-> [b EXCEPT !.anomaly_count = y]]
           \/ \E x, y \in CountGrid :
                  /\ x <= y
                  /\ probe = [coordinate |-> "overspend_count",
                              lo |-> [b EXCEPT !.overspend_count = x],
                              hi |-> [b EXCEPT !.overspend_count = y]]

\* The component scores and the final score calculate_health_score computes
\* from the raw metrics m.
scores_at(m) ==
    LET delivery_score   == _score_delivery_ratio(m.delivery_ratio)
        volatility_score == _score_normalized_volatility(Num(m.volatility),
                                                         Num(CurveAvgAmount))
        anomaly_score    == _score_anomalies(m.anomaly_count, CurveTotal)
        overspend_score  == _score_overspend_rate(m.overspend_count, CurveTotal)
    IN  [delivery_score   |-> delivery_score,
         volatility_score |-> volatility_score,
         anomaly_score    |-> anomaly_score,
         overspend_score  |-> overspend_score,
         final_score      |->
             health_score_result(delivery_score, volatility_score, anomaly_score,
                                 overspend_score, m.delivery_ratio,
                                 Num(m.volatility), m.anomaly_count).final_score]

EvaluateCurves ==
    /\ out.op = "none"
    /\ out' = [op |-> "scores", lo |-> scores_at(probe.lo), hi |-> scores_at(probe.hi)]
    /\ UNCHANGED <<transactions, metrics, ret, df, probe, chatbot, model_file, predictors, calls>>

NextCurve == EvaluateCurves

SpecCurve == InitCurve /\ [][NextCurve]_vars

(***************************************************************************)
(* Claims about the scoring curves (SpecCurve).                            *)
(***************************************************************************)
\* C6: when one raw metric (delivery ratio, normalized volatility, anomaly
\* rate, overspend rate) is raised and the others are kept, the delivery score
\* and the anomaly score do not rise, across their breakpoints included, and
\* final_score does not rise.
C6_CurvesMonotone ==
    (/\ out.op = "scores"
     /\ RLe(probe.lo.delivery_ratio, probe.hi.delivery_ratio)
     /\ probe.lo.volatility <= probe.hi.volatility
     /\ probe.lo.anomaly_count <= probe.hi.anomaly_count
     /\ probe.lo.overspend_count <= probe.hi.overspend_count) =>
        /\ RLe(out.hi.delivery_score, out.lo.delivery_score)
        /\ RLe(out.hi.anomaly_score, out.lo.anomaly_score)
        /\ RLe(out.hi.final_score, out.lo.final_score)

\* C6 witness: the delivery ratio raised from the breakpoint T to the
\* breakpoint 2T, with a final score that has fallen.
C6_Witness ==
    /\ out.op = "scores"
    /\ probe.coordinate = "delivery_ratio"
    /\ probe.lo.delivery_ratio = RISK_THRESHOLDS.high_delivery_ratio
    /\ probe.hi.delivery_ratio = RMul(RISK_THRESHOLDS.high_delivery_ratio, Num(2))
    /\ RLt(out.hi.final_score, out.lo.final_score)

(***************************************************************************)
(* SpecSession: one browser session with its chat assistant, next to the   *)
(* pages that add and delete transactions.  app.py keeps the FinanceChatbot *)
(* in st.session_state; its engines load their frames in __init__.         *)
(***************************************************************************)
\* The amounts the ingestion paths hand to add_transaction: a CSV row may carry
\* any number.
IngestAmounts == {-50, 100}

\* The messages of the user: none typed, or one with the given intent.
Intents == {"none", "score", "delivery"}

\* FinanceChatbot.__init__: each engine loads the user's rows as they are now.
FinanceChatbot(user_id) ==
    [constructed     |-> TRUE,
     user_id         |-> user_id,
     transactions_df |-> _load_transactions(transactions, user_id)]

\* process_message: the handler of the intent, on the engines of the chatbot.
process_message(bot, intent) ==
    IF intent = "score"
    THEN calculate_health_score(bot.transactions_df, bot.transactions_df)
    ELSE get_delivery_metrics(bot.transactions_df)

\* render_chat_assistant: the chatbot is constructed if the session has none,
\* and a typed message is answered by it.
render_chat_assistant(user_id, intent) ==
    /\ chatbot.constructed => chatbot.user_id = user_id
    /\ chatbot' = IF chatbot.constructed THEN chatbot ELSE FinanceChatbot(user_id)
    /\ out' = IF intent = "none" THEN out
              ELSE [op |-> "process_message", user_id |-> user_id,
                    intent |-> intent,
                    response |-> process_message(chatbot', intent)]
    /\ UNCHANGED <<transactions, metrics, ret, df, probe, model_file, predictors, calls>>

InitSession == Init

NextSession ==
    \/ \E u \in Users, date \in DateInputs, c \in Categories, a \in IngestAmounts :
           add_transaction(u, date, c, a)
    \/ \E u \in Users, id \in 1..MaxRowId : delete_transaction(u, id)
    \/ \E u \in Users, i \in Intents : render_chat_assistant(u, i)

SpecSession == InitSession /\ [][NextSession]_vars

(***************************************************************************)
(* Claims about the session (SpecSession).                                 *)
(***************************************************************************)
\* What the handler of an intent returns for an engine loaded from the store
\* as it is now.
FreshResponse(user_id, intent) ==
    process_message([transactions_df |-> _load_transactions(transactions, user_id)],
                    intent)

\* C11 as claimed: an analysis operation invoked after transactions were added
\* or deleted computes its result from the user's transaction set as it is at
\* the invocation, also on an engine constructed before the change: every
\* answered chat message carries what a freshly loaded engine returns.
C11_ComputedFromCurrentStore ==
    [][\A u \in Users, i \in Intents \ {"none"} :
           render_chat_assistant(u, i) => out'.response = FreshResponse(u, i)]_vars

\* C17 as claimed: every stored transaction has amount >= 0.
C17_NoNegativeAmountStored == \A r \in transactions : r.amount >= 0

(***************************************************************************)
(* SpecLoad and SpecBoot: OverspendPredictor objects constructed on        *)
(* concurrent threads of one process, sharing the file at ML_MODEL_PATH.   *)
(* A thread is at one of the places of __init__:                           *)
(*   "exists"  before os.path.exists(model_path)                           *)
(*   "load"    before open(model_path, 'rb') and pickle.load               *)
(*   "train"   before the fit of _train_demo_model                         *)
(*   "open"    before open(ML_MODEL_PATH, 'wb')                            *)
(*   "dump"    the file is open and truncated, before pickle.dump ends     *)
(*   "done"    __init__ has returned;  "raised"  it has raised             *)
(* The file holds "complete" (a whole pickle of a dict with 'model' and    *)
(* 'scaler'), "partial" (a pickle cut short), "corrupt" (bytes that are no *)
(* pickle), "no_model" or "no_scaler" (a whole pickle of a dict that lacks *)
(* the entry).  A file that exists may be unreadable, unwritable or both;   *)
(* the models directory itself can be written.                             *)
(***************************************************************************)
FileContents == {"complete", "partial", "corrupt", "no_model", "no_scaler"}

ModelFiles ==
    {[exists |-> FALSE]}
        \cup [exists : {TRUE}, content : FileContents,
              readable : BOOLEAN, writable : BOOLEAN]

\* The try block reading the entries with saved_data.get(...), which raises
\* nothing for an entry that is missing.
load_saved_data_lenient(file, predictor) ==
    IF ~file.exists \/ ~file.readable \/ file.content \in {"partial", "corrupt"}
    THEN [raised |-> TRUE, model |-> predictor.model, scaler |-> predictor.scaler]
    ELSE IF file.content = "no_model"
    THEN [raised |-> FALSE, model |-> "None", scaler |-> "loaded"]
    ELSE IF file.content = "no_scaler"
    THEN [raised |-> FALSE, model |-> "loaded", scaler |-> "None"]
    ELSE [raised |-> FALSE, model |-> "loaded", scaler |-> "loaded"]

\* with open(model_path, 'rb') as f: saved_data = pickle.load(f);
\* self.model = saved_data['model']; self.scaler = saved_data['scaler'].
\* What the try block leaves in self.model and self.scaler, and whether it
\* raised.
load_saved_data(file, predictor) ==
    IF ~file.exists \/ ~file.readable \/ file.content \in {"partial", "corrupt"}
    THEN [raised |-> TRUE, model |-> predictor.model, scaler |-> predictor.scaler]
    ELSE IF file.content = "no_model"
    THEN [raised |-> TRUE, model |-> predictor.model, scaler |-> predictor.scaler]
    ELSE IF file.content = "no_scaler"
    THEN [raised |-> TRUE, model |-> "loaded", scaler |-> predictor.scaler]
    ELSE [raised |-> FALSE, model |-> "loaded", scaler |-> "loaded"]

\* OverspendPredictor(user_id) is called on a new thread: __init__ up to the
\* call of _load_or_train_model.
OverspendPredictor ==
    /\ Len(predictors) < MaxPredictors
    /\ predictors' = Append(predictors,
                            [pc |-> "exists", model |-> "None", scaler |-> "None",
                             trained |-> 0, persisted |-> 0])
    /\ UNCHANGED <<model_file, transactions, metrics, ret, df, out, probe, chatbot, calls>>

\* if os.path.exists(model_path):
path_exists(p) ==
    /\ predictors[p].pc = "exists"
    /\ predictors' = [predictors EXCEPT
                         ![p].pc = IF model_file.exists THEN "load" ELSE "train"]
    /\ UNCHANGED <<model_file, transactions, metrics, ret, df, out, probe, chatbot, calls>>

\* try: ... except: self._train_demo_model()
load_model(p) ==
    /\ predictors[p].pc = "load"
    /\ LET got == load_saved_data(model_file, predictors[p])
       IN  predictors' = [predictors EXCEPT
                             ![p].model  = got.model,
                             ![p].scaler = got.scaler,
                             ![p].pc     = IF got.raised THEN "train" ELSE "done"]
    /\ UNCHANGED <<model_file, transactions, metrics, ret, df, out, probe, chatbot, calls>>

\* _train_demo_model up to self.model.fit(X_scaled, y)
fit_model(p) ==
    /\ predictors[p].pc = "train"
    /\ predictors' = [predictors EXCEPT
                         ![p].model   = "trained",
                         ![p].scaler  = "trained",
                         ![p].trained = @ + 1,
                         ![p].pc      = "open"]
    /\ UNCHANGED <<model_file, transactions, metrics, ret, df, out, probe, chatbot, calls>>

\* with open(ML_MODEL_PATH, 'wb') as f: the file is created or truncated, or
\* the open raises and the error leaves __init__.
open_model_file(p) ==
    /\ predictors[p].pc = "open"
    /\ IF model_file.exists /\ ~model_file.writable
       THEN /\ predictors' = [predictors EXCEPT ![p].pc = "raised"]
            /\ UNCHANGED model_file
       ELSE /\ model_file' =
                   IF model_file.exists
                   THEN [model_file EXCEPT !.content = "partial"]
                   ELSE [exists |-> TRUE, content |-> "partial",
                         readable |-> TRUE, writable |-> TRUE]
            /\ predictors' = [predictors EXCEPT ![p].pc = "dump"]
    /\ UNCHANGED <<transactions, metrics, ret, df, out, probe, chatbot, calls>>

\* pickle.dump({...}, f) and the close of the file
dump_model(p) ==
    /\ predictors[p].pc = "dump"
    /\ model_file' = [model_file EXCEPT !.content = "complete"]
    /\ predictors' = [predictors EXCEPT ![p].persisted = @ + 1, ![p].pc = "done"]
    /\ UNCHANGED <<transactions, metrics, ret, df, out, probe, chatbot, calls>>

InitLoad ==
    /\ EmptyStore
    /\ NoEngine
    /\ NoProbe
    /\ NoSession
    /\ NoCalls
    /\ model_file \in ModelFiles
    /\ predictors = <<>>

NextLoad ==
    \/ OverspendPredictor
    \/ \E p \in 1..Len(predictors) : path_exists(p)
    \/ \E p \in 1..Len(predictors) : load_model(p)
    \/ \E p \in 1..Len(predictors) : fit_model(p)
    \/ \E p \in 1..Len(predictors) : open_model_file(p)
    \/ \E p \in 1..Len(predictors) : dump_model(p)

SpecLoad == InitLoad /\ [][NextLoad]_vars

\* The first predictors of a process whose models directory holds no file.
InitBoot == Init

SpecBoot == InitBoot /\ [][NextLoad]_vars

(***************************************************************************)
(* Claims about the model bootstrap (SpecBoot, SpecLoad).                  *)
(***************************************************************************)
\* The predictors that have run the fit of _train_demo_model.
Trainers == {p \in 1..Len(predictors) : predictors[p].trained > 0}

\* C12 as claimed: when predictors are constructed concurrently while no model
\* file exists, at most one of them trains and persists a model.
C12_AtMostOneTraining == Cardinality(Trainers) <= 1

\* A whole, readable pickle with both entries.
ValidArtifact(file) == file.exists /\ file.readable /\ file.content = "complete"

\* What holds of a predictor whose __init__ has returned.
Constructed(p) ==
    predictors[p].pc = "done" =>
        /\ predictors[p].model \in {"loaded", "trained"}
        /\ predictors[p].scaler = predictors[p].model
        /\ predictors[p].persisted = predictors[p].trained
        /\ predictors[p].trained = IF predictors[p].model = "trained" THEN 1 ELSE 0

LoadOrRetrain ==
    \A p \in 1..Len(predictors) :
        /\ (path_exists(p) /\ ~model_file.exists) => predictors'[p].pc = "train"
        /\ load_model(p) =>
               IF ValidArtifact(model_file)
               THEN /\ predictors'[p].pc = "done"
                    /\ predictors'[p].model = "loaded"
                    /\ predictors'[p].scaler = "loaded"
                    /\ predictors'[p].trained = 0
                    /\ predictors'[p].persisted = 0
                    /\ model_file' = model_file
               ELSE predictors'[p].pc = "train"

MaxFewTx == 2
MaxSnapTx == 6
MaxFile == 3

InitDefaults ==
    /\ EmptyStore
    /\ NoProbe
    /\ NoSession
    /\ NoCalls
    /\ NoPredictor
    /\ df \in {frame_of(S) :
                  S \in {X \in SUBSET Universe : Cardinality(X) <= MaxFewTx}}
    /\ out = [op |-> "none"]

GetSummaryStats ==
    /\ FirstCall
    /\ out' = [op |-> "get_summary_stats", result |-> get_summary_stats(df)]
    /\ UNCHANGED <<df, probe, transactions, metrics, ret, chatbot, model_file, predictors, calls>>

GetDeliveryMetrics ==
    /\ FirstCall
    /\ out' = [op |-> "get_delivery_metrics", result |-> get_delivery_metrics(df)]
    /\ UNCHANGED <<df, probe, transactions, metrics, ret, chatbot, model_file, predictors, calls>>

CalculateVolatility ==
    /\ FirstCall
    /\ out' = [op |-> "calculate_volatility", result |-> calculate_volatility(df)]
    /\ UNCHANGED <<df, probe, transactions, metrics, ret, chatbot, model_file, predictors, calls>>

DetectCategoryAnomalies ==
    /\ FirstCall
    /\ out' = [op |-> "detect_category_anomalies",
               result |-> detect_category_anomalies(df)]
    /\ UNCHANGED <<df, probe, transactions, metrics, ret, chatbot, model_file, predictors, calls>>

DetectOverspendingPeriods ==
    /\ FirstCall
    /\ out' = [op |-> "detect_overspending_periods",
               result |-> detect_overspending_periods(df)]
    /\ UNCHANGED <<df, probe, transactions, metrics, ret, chatbot, model_file, predictors, calls>>

GetAnomalySummary ==
    /\ FirstCall
    /\ out' = [op |-> "get_anomaly_summary", result |-> get_anomaly_summary(df)]
    /\ UNCHANGED <<df, probe, transactions, metrics, ret, chatbot, model_file, predictors, calls>>

ExtractFeatures ==
    /\ FirstCall
    /\ out' = [op |-> "extract_features", result |-> extract_features(df, df)]
    /\ UNCHANGED <<df, probe, transactions, metrics, ret, chatbot, model_file, predictors, calls>>

NextDefaults ==
    \/ GetSummaryStats
    \/ GetDeliveryMetrics
    \/ CalculateVolatility
    \/ CalculateDeliveryRatio
    \/ DetectAmountAnomalies
    \/ DetectCategoryAnomalies
    \/ DetectOverspendingPeriods
    \/ GetAnomalySummary
    \/ ExtractFeatures
    \/ GetRiskFactors
    \/ CalculateHealthScore

SpecDefaults == InitDefaults /\ [][NextDefaults]_vars

(***************************************************************************)
(* Claims about the empty transaction set (SpecDefaults).                  *)
(***************************************************************************)
\* What each operation returns for a user with no transactions.
DefaultOf(op) ==
    CASE op = "get_summary_stats" ->
             [total_transactions  |-> 0,
              total_spent         |-> Num(0),
              average_transaction |-> Num(0),
              median_transaction  |-> Num(0),
              max_transaction     |-> Num(0),
              min_transaction     |-> Num(0),
              date_range_days     |-> 0]
      [] op = "get_delivery_metrics" ->
             [delivery_total      |-> Num(0),
              delivery_count      |-> 0,
              delivery_percentage |-> Num(0),
              total_spending      |-> Num(0),
              avg_delivery_order  |-> Num(0)]
      [] op = "calculate_volatility" -> Num(0)
      [] op = "calculate_delivery_ratio" -> Num(0)
      [] op = "detect_amount_anomalies" -> {}
      [] op = "detect_category_anomalies" -> {}
      [] op = "detect_overspending_periods" -> {}
      [] op = "extract_features" -> <<Num(0), Num(0), Num(0), Num(0)>>
      [] op = "get_risk_factors" -> <<>>

\* C18: on the empty transaction set every operation returns, and returns its
\* default: get_summary_stats and get_delivery_metrics all zeros,
\* calculate_volatility and calculate_delivery_ratio 0, the three detect_
\* operations an empty list, get_anomaly_summary an anomaly_rate of 0,
\* extract_features [0, 0, 0, 0] and get_risk_factors an empty list; the health
\* score of the empty set is a number.
C18_DefaultsOnEmpty ==
    (df = {} /\ out.op # "none") =>
        CASE out.op = "get_anomaly_summary" ->
                 /\ out.result.anomaly_rate = Num(0)
                 /\ out.result.total_amount_anomalies = 0
                 /\ out.result.total_category_anomalies = 0
          [] out.op = "calculate_health_score" ->
                 IsNumber(out.result.final_score)
          [] OTHER -> out.result = DefaultOf(out.op)

\* C18 witness: get_summary_stats has returned for the empty frame.
C18_Witness ==
    /\ df = {}
    /\ out.op = "get_summary_stats"
    /\ out.result.total_transactions = 0

(***************************************************************************)
(* SpecRisk: predict_overspend_risk on a constructed predictor.  The       *)
(* fitted classifier is not part of the model: P(risk = 1) for the scaled  *)
(* features is an input, any value of a grid over [0, 1].                  *)
(***************************************************************************)
\* The grid of probabilities has this many steps.
ProbabilitySteps == 10000

ProbabilityGrid == {Rat(k, ProbabilitySteps) : k \in 0..ProbabilitySteps}

\* predict_overspend_risk taking 'Low' up to 0.3 and 'Moderate' up to 0.6.
predict_overspend_risk_inclusive(features, risk_probability) ==
    [risk_probability |-> Round(risk_probability, 3),
     risk_percentage  |-> Round(RMul(risk_probability, Num(100)), 1),
     risk_class       |-> IF RLt(Rat(1, 2), risk_probability) THEN 1 ELSE 0,
     risk_level       |-> IF RLe(risk_probability, Rat(3, 10)) THEN "Low"
                          ELSE IF RLe(risk_probability, Rat(6, 10)) THEN "Moderate"
                          ELSE "High",
     risk_color       |-> IF RLe(risk_probability, Rat(3, 10)) THEN "green"
                          ELSE IF RLe(risk_probability, Rat(6, 10)) THEN "orange"
                          ELSE "red",
     features         |-> [delivery_ratio      |-> features[1],
                           volatility          |-> features[2],
                           anomaly_count       |-> features[3],
                           budget_breach_count |-> features[4]]]

\* risk_probability is model.predict_proba(features_scaled)[0][1]; the class
\* model.predict gives is 1 when that probability is above one half.
predict_overspend_risk(features, risk_probability) ==
    [risk_probability |-> Round(risk_probability, 3),
     risk_percentage  |-> Round(RMul(risk_probability, Num(100)), 1),
     risk_class       |-> IF RLt(Rat(1, 2), risk_probability) THEN 1 ELSE 0,
     risk_level       |-> IF RLt(risk_probability, Rat(3, 10)) THEN "Low"
                          ELSE IF RLt(risk_probability, Rat(6, 10)) THEN "Moderate"
                          ELSE "High",
     risk_color       |-> IF RLt(risk_probability, Rat(3, 10)) THEN "green"
                          ELSE IF RLt(risk_probability, Rat(6, 10)) THEN "orange"
                          ELSE "red",
     features         |-> [delivery_ratio      |-> features[1],
                           volatility          |-> features[2],
                           anomaly_count       |-> features[3],
                           budget_breach_count |-> features[4]]]

InitRisk ==
    /\ EmptyStore
    /\ NoSession
    /\ NoCalls
    /\ NoPredictor
    /\ df \in {frame_of(S) : S \in {X \in SUBSET Universe : Cardinality(X) <= 1}}
    /\ probe \in {[coordinate |-> "risk_probability", predict_proba |-> q] :
                     q \in ProbabilityGrid}
    /\ out = [op |-> "none"]

PredictOverspendRisk ==
    /\ FirstCall
    /\ out' = [op |-> "predict_overspend_risk",
               result |-> predict_overspend_risk(extract_features(df, df),
                                                 probe.predict_proba)]
    /\ UNCHANGED <<df, probe, transactions, metrics, ret, chatbot, model_file, predictors, calls>>

NextRisk == PredictOverspendRisk

SpecRisk == InitRisk /\ [][NextRisk]_vars

(***************************************************************************)
(* Claims about the risk prediction (SpecRisk).                            *)
(***************************************************************************)
\* The mapping from a probability to a risk level.
LevelOf(q) ==
    IF RLt(q, Rat(3, 10)) THEN "Low"
    ELSE IF RLt(q, Rat(6, 10)) THEN "Moderate"
    ELSE "High"

\* C20 as claimed: risk_level is the level of the returned risk_probability
\* ('Low' iff below 0.3, 'Moderate' iff from 0.3 to below 0.6, 'High' iff 0.6
\* or above), and risk_percentage is the returned risk_probability times 100.
C20_LevelOfReturnedProbability ==
    out.op = "predict_overspend_risk" =>
        /\ out.result.risk_level = LevelOf(out.result.risk_probability)
        /\ out.result.risk_percentage =
               RMul(out.result.risk_probability, Num(100))

\* C20 as amended: risk_level is the level of the classifier's probability
\* before it is rounded to three places for the result; the two differ only
\* when the returned risk_probability is exactly 0.3 or 0.6 and the classifier's
\* probability lies below it by at most 0.0005.  risk_percentage is the
\* returned risk_probability times 100.
C20_LevelOfUnroundedProbability ==
    out.op = "predict_overspend_risk" =>
        LET q == probe.predict_proba
            r == out.result.risk_probability
        IN  /\ r = Round(q, 3)
            /\ out.result.risk_percentage = RMul(r, Num(100))
            /\ out.result.risk_level = LevelOf(q)
            /\ out.result.risk_level # LevelOf(r) =>
                   /\ r \in {Rat(3, 10), Rat(6, 10)}
                   /\ RLt(q, r)
                   /\ RLe(RSub(r, q), Rat(5, 10000))

\* C20 witness: a result with risk_probability 0.3 and risk_level 'Low'.
C20_Witness ==
    /\ out.op = "predict_overspend_risk"
    /\ out.result.risk_probability = Rat(3, 10)
    /\ out.result.risk_level = "Low"

(***************************************************************************)
(* Claims about the users of the shared store (Spec).                      *)
(***************************************************************************)
\* What a user's engines compute from: the frame loaded for the user and the
\* user's snapshots.
ViewOf(user_id) ==
    [transactions_df |-> _load_transactions(transactions, user_id),
     rows            |-> {r \in transactions : r.user_id = user_id},
     snapshots       |-> SnapshotsOf(user_id)]

\* A call of add_transaction, delete_transaction or save_metrics by the user.
WriteBy(user_id) ==
    \/ ret'.op = "add_transaction" /\ ret'.user_id = user_id
    \/ ret'.op = "delete_transaction"
           /\ \E id \in 1..MaxRowId : delete_transaction(user_id, id)
    \/ ret'.op = "save_metrics" /\ ret'.user_id = user_id

\* C16: add_transaction, delete_transaction and save_metrics called by one
\* user leave every other user's transactions and snapshots as they were, and
\* with them the frame the other user's engines load and compute from; a
\* delete_transaction given the id of another user's transaction deletes
\* nothing.
C16_UserIsolation ==
    /\ [][\A u \in Users : WriteBy(u) =>
              \A v \in Users \ {u} : ViewOf(v)' = ViewOf(v)]_vars
    /\ [][\A u \in Users, id \in 1..MaxRowId :
              (/\ ret'.op = "delete_transaction"
               /\ \E r \in transactions : r.transaction_id = id /\ r.user_id # u
               /\ delete_transaction(u, id))
                  => transactions' = transactions]_vars

\* C16 witness: a user has called delete_transaction while the store holds a
\* transaction and a snapshot of another user.
C16_Witness ==
    /\ ret.op = "delete_transaction"
    /\ \E r \in transactions : r.user_id = 2
    /\ \E i \in 1..Len(metrics) : metrics[i].user_id = 2
    /\ ~ \E r \in transactions : r.user_id = 1

(***************************************************************************)
(* SpecLog: the snapshot log under reads, analyses and failing statements. *)
(* A statement run through execute_query either succeeds or raises         *)
(* sqlite3.Error inside it (database locked, disk I/O error, ...).         *)
(***************************************************************************)
\* database.db.execute_query: the result of the statement, or None when
\* sqlite3.Error was raised, which it prints and swallows.  The value is
\* <<result>> or <<>> for None.
execute_query(result, sqlite_error) ==
    IF sqlite_error THEN <<>> ELSE <<result>>

\* save_metrics, its INSERT failing or not.
save_metrics_io(user_id, sqlite_error) ==
    IF execute_query("lastrowid", sqlite_error) = <<>>
    THEN /\ ret' = [op |-> "save_metrics", user_id |-> user_id,
                    returned |->
                        calculate_health_score(
                            _load_transactions(transactions, user_id),
                            _load_transactions(transactions, user_id)),
                    database_error |-> TRUE]
         /\ UNCHANGED <<transactions, metrics, df, out, probe, chatbot, model_file, predictors, calls>>
    ELSE save_metrics(user_id)

\* get_previous_score, its SELECT failing or not: results is None on failure.
get_previous_score_io(user_id, sqlite_error) ==
    IF execute_query("rows", sqlite_error) = <<>>
    THEN /\ ret' = [op |-> "get_previous_score", user_id |-> user_id,
                    returned |-> "None", database_error |-> TRUE]
         /\ UNCHANGED <<transactions, metrics, df, out, probe, chatbot, model_file, predictors, calls>>
    ELSE get_previous_score(user_id)

\* The results of SELECT ... WHERE user_id = ? ORDER BY calculated_at DESC
\* LIMIT 10: the user's rows, latest first, rows of equal calculated_at in
\* either order.
latest_ten(rows, user_id) ==
    LET mine == {i \in 1..Len(rows) : rows[i].user_id = user_id}
        n    == IF Cardinality(mine) < 10 THEN Cardinality(mine) ELSE 10
    IN  {s \in [1..n -> mine] :
            /\ \A i, j \in 1..n : i < j =>
                   /\ s[i] # s[j]
                   /\ rows[s[i]].calculated_at >= rows[s[j]].calculated_at
            /\ \A k \in mine : (\A i \in 1..n : s[i] # k) =>
                   \A i \in 1..n : rows[s[i]].calculated_at >= rows[k].calculated_at}

get_score_history(user_id, sqlite_error) ==
    /\ \E results \in latest_ten(metrics, user_id) :
           ret' = IF execute_query(results, sqlite_error) = <<>>
                  THEN [op |-> "get_score_history", user_id |-> user_id,
                        returned |-> <<>>, database_error |-> TRUE]
                  ELSE [op |-> "get_score_history", user_id |-> user_id,
                        returned |->
                            [i \in 1..Len(results) |->
                                [health_score   |-> metrics[results[i]].health_score,
                                 overspend_risk |-> metrics[results[i]].overspend_risk,
                                 calculated_at  |-> metrics[results[i]].calculated_at]]]
    /\ UNCHANGED <<transactions, metrics, df, out, probe, chatbot, model_file, predictors, calls>>

\* The operations invoked on an engine of SpecLog.
EngineOps ==
    {"calculate_health_score", "get_risk_factors", "predict_overspend_risk",
     "get_summary_stats", "get_delivery_metrics", "calculate_volatility",
     "calculate_delivery_ratio", "get_weekly_comparison",
     "detect_amount_anomalies", "detect_category_anomalies",
     "detect_overspending_periods", "get_anomaly_summary"}

\* The probability the classifier gives in SpecLog.
LogProbabilities == {Rat(7, 10)}

\* The dates passed to add_transaction in SpecLog: date strings.
LogDates == {d \in DateInputs : d.type = "str"}

\* What the operation returns on an engine whose frames are the given one.
result_of(op, frame, risk_probability) ==
    CASE op = "calculate_health_score" -> calculate_health_score(frame, frame)
      [] op = "get_risk_factors" -> get_risk_factors(frame, frame)
      [] op = "predict_overspend_risk" ->
             predict_overspend_risk(extract_features(frame, frame), risk_probability)
      [] op = "get_summary_stats" -> get_summary_stats(frame)
      [] op = "get_delivery_metrics" -> get_delivery_metrics(frame)
      [] op = "calculate_volatility" -> calculate_volatility(frame)
      [] op = "calculate_delivery_ratio" -> calculate_delivery_ratio(frame)
      [] op = "get_weekly_comparison" -> get_weekly_comparison(frame)
      [] op = "detect_amount_anomalies" -> detect_amount_anomalies(frame)
      [] op = "detect_category_anomalies" -> detect_category_anomalies(frame)
      [] op = "detect_overspending_periods" -> detect_overspending_periods(frame)
      [] op = "get_anomaly_summary" -> get_anomaly_summary(frame)

\* An engine is constructed for the user, which loads its frame, and one
\* operation is invoked on it.  A behaviour has one such call, made at any
\* point of it.
invoke(user_id, op, risk_probability) ==
    /\ FirstCall
    /\ df' = _load_transactions(transactions, user_id)
    /\ out' = [op |-> op, user_id |-> user_id,
               result |-> result_of(op, df', risk_probability)]
    /\ UNCHANGED <<transactions, metrics, ret, probe, chatbot, model_file, predictors, calls>>

InitLog == Init

NextLog ==
    \/ \E u \in Users, date \in LogDates, a \in StoreAmounts :
           add_transaction(u, date, "Food Delivery", a)
    \/ \E u \in Users, e \in BOOLEAN : save_metrics_io(u, e)
    \/ \E u \in Users, e \in BOOLEAN : get_previous_score_io(u, e)
    \/ \E u \in Users, e \in BOOLEAN : get_score_history(u, e)
    \/ \E u \in Users, op \in EngineOps, q \in LogProbabilities : invoke(u, op, q)

SpecLog == InitLog /\ [][NextLog]_vars

(***************************************************************************)
(* Claims about the snapshot log (SpecLog).                                *)
(***************************************************************************)
\* The statement of the call recorded in ret failed in the store.
DatabaseError == "database_error" \in DOMAIN ret

\* C14: a failure of the store propagates: when the INSERT of save_metrics
\* fails, save_metrics does not return normally with a score, and when the
\* SELECT of get_previous_score fails, get_previous_score does not return None
\* as if the user had no earlier snapshot.
C14_StoreFailurePropagates ==
    (ret.op \in {"save_metrics", "get_previous_score"} /\ DatabaseError)
        => "returned" \notin DOMAIN ret

\* C15: the snapshot log is append-only.  A save_metrics whose INSERT succeeds
\* adds exactly one snapshot, of the engine's own user_id, after the earlier
\* ones, which stay as they were; get_previous_score, get_score_history and
\* every operation of an engine (calculate_health_score, predict_overspend_risk,
\* get_risk_factors, the Analytics and AnomalyDetector operations) leave the log
\* and the transaction store unchanged.
C15_AppendOnlyLog ==
    /\ [][\A u \in Users :
              (ret'.op = "save_metrics" /\ ret'.user_id = u /\ save_metrics(u)) =>
                  /\ Len(metrics') = Len(metrics) + 1
                  /\ SubSeq(metrics', 1, Len(metrics)) = metrics
                  /\ metrics'[Len(metrics')].user_id = u
                  /\ transactions' = transactions]_vars
    /\ [][\A u \in Users, e \in BOOLEAN :
              ((ret'.op = "get_previous_score" /\ get_previous_score_io(u, e))
                   \/ get_score_history(u, e))
                  => metrics' = metrics /\ transactions' = transactions]_vars
    /\ [][\A u \in Users, op \in EngineOps, q \in LogProbabilities :
              (out'.op = op /\ out'.user_id = u /\ invoke(u, op, q))
                  => metrics' = metrics /\ transactions' = transactions]_vars

\* C15 witness: a second snapshot has been appended to a log that an engine's
\* calculate_health_score has run against.
C15_Witness ==
    /\ ret.op = "save_metrics"
    /\ ~DatabaseError
    /\ Len(metrics) = 2
    /\ metrics[1].user_id = metrics[2].user_id
    /\ out.op = "calculate_health_score"

(***************************************************************************)
(* SpecTie: detect_amount_anomalies on frames whose amounts put a z-score  *)
(* at the threshold: four equal amounts and a fifth one.  With 299 and 304 *)
(* the mean and the variance are representable, with 298 and 299 they are  *)
(* not (mean 298.8 or 298.2).                                              *)
(***************************************************************************)
TieAmounts == {298, 299, 304}

TieUniverse == [date : Dates, category : Categories, amount : TieAmounts]

InitTie ==
    /\ EmptyStore
    /\ NoProbe
    /\ NoSession
    /\ NoCalls
    /\ NoPredictor
    /\ df \in {frame_of(S) :
                  S \in {X \in SUBSET TieUniverse : Cardinality(X) <= MaxTx}}
    /\ out = [op |-> "none"]

DetectAmountAnomaliesFloat64 ==
    /\ FirstCall
    /\ \E anomalies \in detect_amount_anomalies_float64(df) :
           out' = [op |-> "detect_amount_anomalies", result |-> anomalies,
                   anomaly_score |->
                       _score_anomalies(Cardinality(anomalies), Cardinality(df))]
    /\ UNCHANGED <<df, probe, transactions, metrics, ret, chatbot, model_file, predictors, calls>>

NextTie == DetectAmountAnomaliesFloat64

SpecTie == InitTie /\ [][NextTie]_vars

(***************************************************************************)
(* Claims about the z-score test (SpecTie).                                *)
(***************************************************************************)
\* The rows of the frame whose exact z-score is above the threshold (strict)
\* or at least the threshold, written without the quotient:
\* n * (amount - mean)^2 against threshold^2 * (sum of squared deviations).
RowsBeyond(strict) ==
    IF Cardinality(df) < 3 \/ SqDevAmount(df) = Num(0) THEN {}
    ELSE {r \in df :
             LET dev == RSub(Num(r.amount), MeanAmount(df))
                 lhs == RMul(Num(Cardinality(df)), RMul(dev, dev))
                 rhs == RMul(Num(4), SqDevAmount(df))
             IN  IF strict THEN RLt(rhs, lhs) ELSE RLe(rhs, lhs)}

Flagged == {r \in df : \E a \in out.result : a.transaction_id = r.transaction_id}

C30_NoAnomalyUpToFive ==
    (out.op = "detect_amount_anomalies" /\ Cardinality(df) <= 5) =>
        /\ out.result = {}
        /\ out.anomaly_score = Num(100)

(***************************************************************************)
(* SpecBudget: get_budget_comparison on frames of few rows whose           *)
(* categories include one that is not among CATEGORIES.                    *)
(***************************************************************************)
InitBudget ==
    /\ EmptyStore
    /\ NoProbe
    /\ NoSession
    /\ NoCalls
    /\ NoPredictor
    /\ df \in {{[transaction_id |-> RowId(t) + (IF t.category = "Crypto" THEN 5 ELSE 0),
                 date |-> t.date, category |-> t.category, amount |-> t.amount] :
                t \in S} :
               S \in {X \in SUBSET [date : Dates,
                                    category : Categories \cup {"Crypto"},
                                    amount : {130, 4000}] :
                         Cardinality(X) <= MaxFewTx}}
    /\ out = [op |-> "none"]

GetBudgetComparison ==
    /\ FirstCall
    /\ \E frame \in get_budget_comparison(df) :
           out' = [op |-> "get_budget_comparison", result |-> frame]
    /\ UNCHANGED <<df, probe, transactions, metrics, ret, chatbot, model_file, predictors, calls>>

SpecBudget == InitBudget /\ [][GetBudgetComparison]_vars

(***************************************************************************)
(* Claims about the budget comparison (SpecBudget).                        *)
(***************************************************************************)
\* The frame holds a transaction of a category without a suggested budget.
HasCustomCategory == \E r \in df : r.category = "Crypto"

CustomRows == {i \in 1..Len(out.result) : out.result[i].Category = "Crypto"}

SortedByActual ==
    \A i, j \in 1..Len(out.result) :
        i < j => RLe(out.result[j].Actual, out.result[i].Actual)

\* C22 as claimed: a transaction of an unknown category appears as its own row
\* of get_budget_comparison, with Budget 5000 and Percentage =
\* Actual / 5000 * 100, and the rows are sorted by Actual descending.
C22_DefaultBudgetExactPercentage ==
    (out.op = "get_budget_comparison" /\ HasCustomCategory) =>
        /\ Cardinality(CustomRows) = 1
        /\ \A i \in CustomRows :
               /\ out.result[i].Budget = 5000
               /\ out.result[i].Actual =
                      Num(SumAmount({r \in df : r.category = "Crypto"}))
               /\ out.result[i].Percentage =
                      RMul(RDiv(out.result[i].Actual, Num(5000)), Num(100))
        /\ SortedByActual

\* C22 as amended: the row of the unknown category has Budget 5000 and
\* Percentage = Actual / 5000 * 100 rounded to a whole number; the frame has
\* one row per category of the transactions and is sorted by Actual descending.
C22_DefaultBudgetRoundedPercentage ==
    (out.op = "get_budget_comparison" /\ HasCustomCategory) =>
        /\ Cardinality(CustomRows) = 1
        /\ \A i \in CustomRows :
               /\ out.result[i].Budget = 5000
               /\ out.result[i].Actual =
                      Num(SumAmount({r \in df : r.category = "Crypto"}))
               /\ out.result[i].Percentage =
                      Round(RMul(RDiv(out.result[i].Actual, Num(5000)), Num(100)), 0)
        /\ Len(out.result) = Cardinality({r.category : r \in df})
        /\ SortedByActual

\* C22 witness: a frame with one 'Crypto' transaction of 130 and a known
\* category; the 'Crypto' row reports 3 percent of the default budget.
C22_Witness ==
    /\ out.op = "get_budget_comparison"
    /\ Len(out.result) = 2
    /\ \E i \in CustomRows :
           /\ out.result[i].Actual = Num(130)
           /\ out.result[i].Percentage = Num(3)

(***************************************************************************)
(* SpecTrend: get_monthly_trend_with_projection on frames whose dates lie  *)
(* in the last week, the week before, more than eight weeks back, and      *)
(* tomorrow: add_transaction stores the date it is given.                  *)
(***************************************************************************)
InitTrend ==
    /\ EmptyStore
    /\ NoProbe
    /\ NoSession
    /\ NoCalls
    /\ NoPredictor
    /\ df \in {frame_of(S) :
                  S \in {X \in SUBSET [date : {Today - 60, Today - 8, Today - 1, Today + 1},
                                       category : {"Food Delivery"},
                                       amount : {100, 1000}] :
                            Cardinality(X) <= MaxTx}}
    /\ out = [op |-> "none"]

GetMonthlyTrendWithProjection ==
    /\ FirstCall
    /\ out' = [op |-> "get_monthly_trend_with_projection",
               result |-> get_monthly_trend_with_projection(df)]
    /\ UNCHANGED <<df, probe, transactions, metrics, ret, chatbot, model_file, predictors, calls>>

SpecTrend == InitTrend /\ [][GetMonthlyTrendWithProjection]_vars

(***************************************************************************)
(* Claims about the monthly trend (SpecTrend).                             *)
(***************************************************************************)
ActualRows == SelectSeq(out.result, LAMBDA row : row.Type = "Actual")

ProjectedRows == SelectSeq(out.result, LAMBDA row : row.Type = "Projected")

\* C25: get_monthly_trend_with_projection returns actual weekly sums for the
\* trailing 8 weeks only (week indices 1..8); with at least 2 weeks of data it
\* appends exactly 4 projected points, Amount = max(0, last_actual +
\* avg_growth * step) for step 1..4, avg_growth the mean difference of
\* consecutive actual sums, none negative; with fewer than 2 weeks it returns
\* the actual rows only.
C25_TrailingEightWeeks ==
    out.op = "get_monthly_trend_with_projection" =>
        LET actual == ActualRows
            n      == Len(actual)
        IN  /\ \A i \in 1..n :
                   /\ actual[i].Week \in 1..8
                   /\ actual[i].Amount =
                          Num(SumAmount({r \in df :
                                  /\ r.date <= Today
                                  /\ r.date > Today - 56
                                  /\ (Today - r.date) \div 7 = 8 - actual[i].Week}))
            /\ out.result = actual \o ProjectedRows
            /\ IF n >= 2
               THEN /\ Len(ProjectedRows) = 4
                    /\ \A step \in 1..4 :
                           /\ ProjectedRows[step].Amount =
                                  RMax(Num(0),
                                       RAdd(actual[n].Amount,
                                            RMul(RDiv(RSum([i \in 1..(n - 1) |->
                                                          RSub(actual[i + 1].Amount,
                                                               actual[i].Amount)]),
                                                      Num(n - 1)),
                                                 Num(step))))
                           /\ RLe(Num(0), ProjectedRows[step].Amount)
               ELSE ProjectedRows = <<>>

(***************************************************************************)
(* SpecSnap: the dashboard of user 1 rendered again and again.  The user   *)
(* was shown the dashboard once before the first transaction was stored,   *)
(* which left one snapshot of the empty store in the log; the store now    *)
(* holds up to MaxSnapTx transactions and nothing adds or deletes one.     *)
(***************************************************************************)
InitSnap ==
    /\ NoEngine
    /\ NoProbe
    /\ NoSession
    /\ NoCalls
    /\ NoPredictor
    /\ ret = [op |-> "none"]
    /\ transactions \in
           {{[transaction_id |-> RowId(t), user_id |-> 1, date |-> t.date,
              category |-> t.category, amount |-> t.amount] : t \in S} :
            S \in {X \in SUBSET ([date : {Today - 8, Today - 2, Today - 1},
                                  category : Categories, amount : {100}]
                                     \cup {[date |-> Today - 1, category |-> "Food Delivery",
                                            amount |-> 4000]}) :
                      Cardinality(X) <= MaxSnapTx}}
    /\ metrics =
           <<[user_id        |-> 1,
              health_score   |-> calculate_health_score({}, {}).final_score,
              overspend_risk |->
                  _calculate_simple_risk(
                      RDiv(get_delivery_metrics({}).delivery_percentage, Num(100)),
                      calculate_volatility({}), get_anomaly_count({})),
              volatility     |-> calculate_volatility({}),
              delivery_ratio |-> RDiv(get_delivery_metrics({}).delivery_percentage,
                                      Num(100)),
              anomaly_count  |-> get_anomaly_count({}),
              calculated_at  |-> 1]>>

NextSnap ==
    \/ Len(metrics) <= MaxSnap /\ insert_metrics(1)
    \/ get_previous_score(1)

SpecSnap == InitSnap /\ [][NextSnap]_vars

(***************************************************************************)
(* Claims about the snapshots of a dashboard rendered repeatedly           *)
(* (SpecSnap).                                                             *)
(***************************************************************************)
\* 0.4 * delivery_ratio + 0.3 * min(volatility / 1000, 1)
\*     + 0.3 * min(anomaly_count / 10, 1) of a stored snapshot, clamped to [0, 1].
WeightedRisk(m) ==
    LET sum == RAdd(RAdd(RMul(Rat(4, 10), m.delivery_ratio),
                         RMul(Rat(3, 10),
                              IF RLe(Num(1000), m.volatility) THEN Num(1)
                              ELSE RDiv(m.volatility, Num(1000)))),
                    RMul(Rat(3, 10),
                         IF m.anomaly_count >= 10 THEN Num(1)
                         ELSE Rat(m.anomaly_count, 10)))
    IN  IF RLt(sum, Num(0)) THEN Num(0)
        ELSE IF RLt(Num(1), sum) THEN Num(1) ELSE sum

\* C21: every snapshot in the log has overspend_risk = 0.4 * delivery_ratio +
\* 0.3 * min(volatility / 1000, 1) + 0.3 * min(anomaly_count / 10, 1) clamped
\* to [0, 1], so between 0 and 1, and the snapshot a save_metrics call appends
\* has the final_score that call returns as its health_score.
C21_RiskFormulaAndReturnedScore ==
    /\ \A i \in 1..Len(metrics) :
           /\ metrics[i].overspend_risk = WeightedRisk(metrics[i])
           /\ RLe(Num(0), metrics[i].overspend_risk)
           /\ RLe(metrics[i].overspend_risk, Num(1))
    /\ ret.op = "save_metrics" =>
           metrics[Len(metrics)].health_score = ret.returned.final_score

\* A save has appended a snapshot of a store with an anomaly, food delivery
\* spending and a volatility above 1000, whose risk is below 1 and whose score
\* is not the score of the empty store.
C21_Witness ==
    /\ ret.op = "save_metrics"
    /\ metrics[Len(metrics)].anomaly_count > 0
    /\ RLt(Num(1000), metrics[Len(metrics)].volatility)
    /\ RLt(Num(0), metrics[Len(metrics)].delivery_ratio)
    /\ RLt(metrics[Len(metrics)].overspend_risk, Num(1))
    /\ metrics[Len(metrics)].health_score # metrics[1].health_score

\* C29: after save_metrics has been called twice in succession with no change
\* to the user's transactions in between, the two snapshots appended carry the
\* same health_score and get_previous_score reports change = 0.
C29_RepeatedSaveNoChange ==
    Len(metrics) >= 3 =>
        /\ metrics[Len(metrics)].health_score = metrics[Len(metrics) - 1].health_score
        /\ ret.op = "get_previous_score" =>
               ret.returned = "dict" /\ ret.change = Num(0)

(***************************************************************************)
(* SpecImport: CSV files imported into the store.  A file is the set of    *)
(* its column names and the sequence of its rows; the amount cell of a row *)
(* is a number or a text float() does not accept.                          *)
(***************************************************************************)
\* import_rows giving up at the first row that is rejected.
RECURSIVE import_rows_until_error(_, _, _)
import_rows_until_error(acc, user_id, file_rows) ==
    IF file_rows = <<>> THEN acc
    ELSE LET row == Head(file_rows)
         IN  IF \/ ~row.amount.numeric
                \/ _is_duplicate(acc.rows, user_id, row.date, row.amount.value,
                                 row.category)
             THEN [acc EXCEPT !.error_count = @ + 1]
             ELSE import_rows_until_error(
                      [rows |-> acc.rows \cup
                                   {[transaction_id |-> lastrowid(acc.rows),
                                     user_id        |-> user_id,
                                     date           |-> to_date_string(row.date),
                                     category       |-> row.category,
                                     amount         |-> row.amount.value]},
                       success_count |-> acc.success_count + 1,
                       error_count   |-> acc.error_count],
                      user_id, Tail(file_rows))

\* The rows of the file processed in order from the store acc.rows:
\* add_transaction per row, its _is_duplicate raising ValueError on an amount
\* that is not a number (caught per row), returning None on a duplicate and
\* the new rowid otherwise.
RECURSIVE import_rows(_, _, _)
import_rows(acc, user_id, file_rows) ==
    IF file_rows = <<>> THEN acc
    ELSE LET row == Head(file_rows)
         IN  IF ~row.amount.numeric
             THEN import_rows([acc EXCEPT !.error_count = @ + 1], user_id, Tail(file_rows))
             ELSE IF _is_duplicate(acc.rows, user_id, row.date, row.amount.value,
                                   row.category)
             THEN import_rows([acc EXCEPT !.error_count = @ + 1], user_id, Tail(file_rows))
             ELSE import_rows([rows |-> acc.rows \cup
                                   {[transaction_id |-> lastrowid(acc.rows),
                                     user_id        |-> user_id,
                                     date           |-> to_date_string(row.date),
                                     category       |-> row.category,
                                     amount         |-> row.amount.value]},
                               success_count |-> acc.success_count + 1,
                               error_count   |-> acc.error_count],
                              user_id, Tail(file_rows))

\* uploaded_file is read into a frame of the columns and the rows of the file.
import_csv(user_id, columns, file_rows) ==
    /\ lastrowid(transactions) <= MaxRowId
    /\ IF ~("date" \in columns /\ "category" \in columns /\ "amount" \in columns)
       THEN /\ ret' = [op |-> "import_csv", user_id |-> user_id,
                       columns |-> columns, file_rows |-> file_rows,
                       success_count |-> 0, error_count |-> 0,
                       message |-> "CSV must contain columns"]
            /\ UNCHANGED transactions
       ELSE LET done == import_rows([rows |-> transactions, success_count |-> 0,
                                     error_count |-> 0],
                                    user_id, file_rows)
            IN  /\ transactions' = done.rows
                /\ ret' = [op |-> "import_csv", user_id |-> user_id,
                           columns |-> columns, file_rows |-> file_rows,
                           success_count |-> done.success_count,
                           error_count   |-> done.error_count,
                           message |-> "Imported"]
    /\ UNCHANGED <<metrics, df, out, probe, chatbot, model_file, predictors, calls>>

ImportCsv ==
    \E u \in Users, n \in 0..MaxFile :
        \E file_rows \in
               [1..n -> [amount   : {[value |-> 100, numeric |-> TRUE]},
                         category : Categories,
                         date     : {date \in DateInputs : date.type = "str"}]
                            \cup [amount   : {[value |-> 0, numeric |-> FALSE]},
                                  category : {"Food Delivery"},
                                  date     : {date \in DateInputs : date.type = "str"}]] :
            \E columns \in {{"date", "category", "amount", "description"},
                            {"date", "amount"}} :
                import_csv(u, columns, file_rows)

SpecImport == Init /\ [][ImportCsv]_vars

(***************************************************************************)
(* Claims about import_csv (SpecImport).                                   *)
(***************************************************************************)
HasRequiredColumns == \A col \in {"date", "category", "amount"} : col \in ret.columns

\* The row of the file at place i repeats (date, amount, category) of the row
\* at place j.
RepeatsRow(file_rows, i, j) ==
    /\ file_rows[j].amount.numeric
    /\ file_rows[i].date.day = file_rows[j].date.day
    /\ file_rows[i].amount.value = file_rows[j].amount.value
    /\ file_rows[i].category = file_rows[j].category

\* The places of the rows of the file of an import_csv call that are to be
\* rejected, given the store before the import: an amount that is not a number, the tuple of
\* an earlier row of the file, or the tuple of a stored transaction of the user.
RejectedPlaces(stored, call) ==
    LET file_rows == call.file_rows
    IN  {i \in 1..Len(file_rows) :
            \/ ~file_rows[i].amount.numeric
            \/ \E j \in 1..(i - 1) : RepeatsRow(file_rows, i, j)
            \/ \E r \in stored :
                   /\ r.user_id = call.user_id
                   /\ r.date = file_rows[i].date.day
                   /\ r.amount = file_rows[i].amount.value
                   /\ r.category = file_rows[i].category}

\* C26: import_csv over a file with the required columns counts every row once,
\* success_count + error_count = number of rows; the stored transactions grow
\* by exactly success_count; and a row that repeats (date, amount, category) of
\* an earlier row of the file or of a stored transaction of the user, or whose
\* amount is not a number, is counted as an error and not stored.
C26_EveryRowCounted ==
    [][(ret'.op = "import_csv" /\ "category" \in ret'.columns) =>
           /\ ret'.success_count + ret'.error_count = Len(ret'.file_rows)
           /\ transactions \subseteq transactions'
           /\ Cardinality(transactions') = Cardinality(transactions) + ret'.success_count
           /\ ret'.error_count = Cardinality(RejectedPlaces(transactions, ret'))
           /\ \A r \in transactions' \ transactions :
                  /\ r.user_id = ret'.user_id
                  /\ \E i \in 1..Len(ret'.file_rows) :
                         /\ i \notin RejectedPlaces(transactions, ret')
                         /\ r.date = ret'.file_rows[i].date.day
                         /\ r.amount = ret'.file_rows[i].amount.value
                         /\ r.category = ret'.file_rows[i].category
           /\ \A r1, r2 \in transactions' :
                  (r1.user_id = r2.user_id /\ r1.date = r2.date /\ r1.amount = r2.amount
                       /\ r1.category = r2.category) => r1 = r2]_vars

\* An import of three rows into a store that holds one of them: the stored
\* tuple and a row whose amount is not a number are rejected, the third row is
\* stored, and the import went on after the rejected rows.
C26_Witness ==
    /\ ret.op = "import_csv"
    /\ HasRequiredColumns
    /\ Len(ret.file_rows) = 3
    /\ ret.success_count = 1
    /\ ret.error_count = 2
    /\ ~ret.file_rows[1].amount.numeric
    /\ ret.file_rows[3].amount.numeric
    /\ \E r \in transactions : r.user_id = ret.user_id /\ r.transaction_id = 1
    /\ \E r \in transactions : r.user_id = ret.user_id /\ r.transaction_id = 2

(***************************************************************************)
(* SpecRace: two sessions, each with a TransactionManager and a connection *)
(* of its own, call add_transaction.  A call runs the SELECT of            *)
(* _is_duplicate and then, if no row was counted, the INSERT; the          *)
(* connection holds no transaction open between the two statements.        *)
(***************************************************************************)
InitRace ==
    /\ EmptyStore
    /\ NoEngine
    /\ NoProbe
    /\ NoSession
    /\ NoPredictor
    /\ calls \in [1..2 -> [op       : {"add_transaction"},
                           user_id  : Users,
                           date     : {date \in DateInputs : date.type = "str"},
                           category : Categories,
                           amount   : StoreAmounts,
                           pc       : {"_is_duplicate"},
                           returned : {"pending"},
                           lastrowid : {0}]]

\* Lines 46-48: the duplicate check of call i.
AddTransactionIsDuplicate(i) ==
    /\ calls[i].op = "add_transaction"
    /\ calls[i].pc = "_is_duplicate"
    /\ calls' = [calls EXCEPT ![i] =
                    IF _is_duplicate(transactions, calls[i].user_id, calls[i].date,
                                     calls[i].amount, calls[i].category)
                    THEN [@ EXCEPT !.pc = "returned", !.returned = "None"]
                    ELSE [@ EXCEPT !.pc = "insert"]]
    /\ UNCHANGED <<transactions, metrics, ret, df, out, probe, chatbot, model_file, predictors>>

\* Lines 50-62: the INSERT and the commit of call i.
AddTransactionInsert(i) ==
    /\ calls[i].op = "add_transaction"
    /\ calls[i].pc = "insert"
    /\ transactions' = transactions \cup
           {[transaction_id |-> lastrowid(transactions),
             user_id        |-> calls[i].user_id,
             date           |-> to_date_string(calls[i].date),
             category       |-> calls[i].category,
             amount         |-> calls[i].amount]}
    /\ calls' = [calls EXCEPT ![i] = [@ EXCEPT !.pc = "returned",
                                               !.returned = "lastrowid",
                                               !.lastrowid = lastrowid(transactions)]]
    /\ UNCHANGED <<metrics, ret, df, out, probe, chatbot, model_file, predictors>>

NextRace ==
    \/ \E i \in 1..Len(calls) : AddTransactionIsDuplicate(i)
    \/ \E i \in 1..Len(calls) : AddTransactionInsert(i)

SpecRace == InitRace /\ [][NextRace]_vars

(***************************************************************************)
(* Claims about concurrent add_transaction calls (SpecRace).               *)
(***************************************************************************)
\* Calls i and j are for the same user and the same (date, amount, category).
SameCall(i, j) ==
    /\ calls[i].user_id = calls[j].user_id
    /\ calls[i].date.day = calls[j].date.day
    /\ calls[i].amount = calls[j].amount
    /\ calls[i].category = calls[j].category

InitEngine ==
    /\ NoEngine
    /\ NoProbe
    /\ NoSession
    /\ NoPredictor
    /\ metrics = <<>>
    /\ ret = [op |-> "none"]
    /\ transactions \in
           {{[transaction_id |-> RowId(t), user_id |-> 1, date |-> t.date,
              category |-> t.category, amount |-> t.amount] : t \in S} :
            S \in {X \in SUBSET ([date : {Today - 8, Today - 2, Today - 1},
                                  category : Categories, amount : {100}]
                                     \cup {[date |-> Today - 1, category |-> "Food Delivery",
                                            amount |-> 4000]}) :
                      Cardinality(X) = 0 \/ Cardinality(X) = MaxSnapTx}}
    /\ calls = <<[op |-> "HealthScoreEngine", user_id |-> 1, pc |-> "FinancialAnalytics",
                  adf |-> {}, ddf |-> {}, score_data |-> EmptyDict]>>

\* Line 20: self.analytics = FinancialAnalytics(user_id) loads its frame.
ConstructAnalytics(i) ==
    /\ calls[i].op = "HealthScoreEngine"
    /\ calls[i].pc = "FinancialAnalytics"
    /\ calls' = [calls EXCEPT ![i] =
                    [@ EXCEPT !.adf = _load_transactions(transactions, calls[i].user_id),
                              !.pc  = "AnomalyDetector"]]
    /\ UNCHANGED <<transactions, metrics, ret, df, out, probe, chatbot, model_file, predictors>>

\* Line 21: self.anomaly_detector = AnomalyDetector(user_id) loads its frame.
ConstructAnomalyDetector(i) ==
    /\ calls[i].op = "HealthScoreEngine"
    /\ calls[i].pc = "AnomalyDetector"
    /\ calls' = [calls EXCEPT ![i] =
                    [@ EXCEPT !.ddf = _load_transactions(transactions, calls[i].user_id),
                              !.pc  = "calculate_health_score"]]
    /\ UNCHANGED <<transactions, metrics, ret, df, out, probe, chatbot, model_file, predictors>>

EngineCalculateHealthScore(i) ==
    /\ calls[i].op = "HealthScoreEngine"
    /\ calls[i].pc = "calculate_health_score"
    /\ calls' = [calls EXCEPT ![i] =
                    [@ EXCEPT !.score_data = calculate_health_score(calls[i].adf,
                                                                    calls[i].ddf),
                              !.pc         = "returned"]]
    /\ UNCHANGED <<transactions, metrics, ret, df, out, probe, chatbot, model_file, predictors>>

NextEngine ==
    \/ \E i \in 1..Len(calls) : ConstructAnalytics(i)
    \/ \E i \in 1..Len(calls) : ConstructAnomalyDetector(i)
    \/ \E i \in 1..Len(calls) : EngineCalculateHealthScore(i)
    \/ \E u \in Users, date \in DateInputs, c \in Categories, a \in StoreAmounts :
           /\ calls[1].pc = "AnomalyDetector"
           /\ add_transaction(u, date, c, a)
    \/ \E r \in transactions :
           /\ calls[1].pc = "AnomalyDetector"
           /\ delete_transaction(r.user_id, r.transaction_id)

SpecEngine == InitEngine /\ [][NextEngine]_vars

(***************************************************************************)
(* Claims about the frames of one engine (SpecEngine).                     *)
(***************************************************************************)
\* C28: every result of calculate_health_score is computed from one
\* transaction set: the frame of the engine's AnomalyDetector (anomaly count,
\* overspending periods) and the frame of its FinancialAnalytics (transaction
\* count, delivery ratio, volatility) hold the same transactions, also when a
\* transaction is added or deleted while the engine is being constructed.
C28_OneTransactionSet ==
    \A i \in 1..Len(calls) :
        (calls[i].op = "HealthScoreEngine" /\ calls[i].pc = "returned") =>
            /\ calls[i].adf = calls[i].ddf
            /\ calls[i].score_data = calculate_health_score(calls[i].adf, calls[i].adf)

====
